---- MODULE Spec2Model ----
(***************************************************************************)
(* A model of the friture spectrogram pipeline: the RingBuffer<T> sample   *)
(* store (ringbuffer.hpp), the SpectrogramImage scrolling canvas           *)
(* (spectrogram_image.cpp) and the renderer that draws it                  *)
(* (FritureApp::renderFrame).                                              *)
(*                                                                         *)
(* Five specifications share the module:                                   *)
(*   SpecRing      one thread calling write / read / getWritePosition      *)
(*   SpecConc      one writer thread and several reader threads, every     *)
(*                 memcpy taken one element at a time                      *)
(*   SpecCanvas    addColumn / clear / resize / renderFrame / saveToBMP    *)
(*   SpecSettings  the validating setters of SpectrogramSettings           *)
(*   SpecApp       FritureApp: loading audio, then run() and its events    *)
(* Each specification pins the variables of the other components.          *)
(***************************************************************************)
EXTENDS Integers, Sequences, FiniteSets, TLC

VARIABLES
    \* ---- RingBuffer<T> (ringbuffer.hpp:156-158) ----
    capacity_,      \* size_t capacity_
    buffer_,        \* std::vector<T> buffer_, as a function 0..capacity_-1 -> sample
    write_pos_,     \* std::atomic<size_t> write_pos_
    \* ---- the single-threaded caller of SpecRing ----
    total_written,  \* history: number of samples handed to write() so far
    output,         \* the caller's output buffer after read(); <<>> after any other call
    last_op,        \* history: the last ring call and its arguments
    fault,          \* TRUE once an out-of-bounds access has ended the process
    stray,          \* history: some call so far accessed memory outside the storage
    \* ---- the threads of SpecConc ----
    wpc,            \* writer: "idle" | "copy"
    w_pos,          \* writer local: pos
    w_count,        \* writer argument: count
    w_k,            \* writer: elements copied so far by the two memcpy calls
    w_steps,        \* history: steps the writer took in its current call
    published,      \* history: buffer_ as it was when write_pos_ was last stored
    rpc,            \* reader r: "idle" | "copy" | "done"
    r_p,            \* reader r: the value getWritePosition() returned
    r_n,            \* reader r: count
    r_start,        \* reader r local: start_pos
    r_k,            \* reader r: elements copied so far
    r_out,          \* reader r: its output buffer
    r_expect,       \* history: the last r_n[r] published samples when r_p[r] was loaded
    r_raced,        \* history: r loaded an element an unfinished write had stored to
    r_steps,        \* history: steps reader r took in its current call
    \* ---- SpectrogramImage (spectrogram_image.hpp) and the renderer ----
    width_,
    height_,
    write_offset_,
    read_offset_,
    columns_written_,
    pixels_,        \* std::vector<uint32_t> pixels_, 0..2*width_*height_-1 -> color
    added,          \* history: the columns added since construction/clear/resize
    texture,        \* the streaming texture after the last renderFrame()
    canvas_op,      \* history: the last canvas call and whether it threw
    call_args,      \* history: the arguments of the last canvas call
    prior_written,  \* history: columns_written_ when the last canvas call began
    bmp,            \* the file the last call wrote, if it was saveToBMP()
    \* ---- SpectrogramSettings (settings.hpp); frequencies and rates in Hz, ----
    \* ---- amplitudes in dB, time_range in tenths of a second              ----
    fft_size,
    freq_scale,
    min_freq,
    max_freq,
    spec_min_db,
    spec_max_db,
    time_range,
    sample_rate,
    settings_op,    \* history: the last setter called and what it returned
    \* ---- FritureApp (application.hpp:177-227) ----
    run_state,      \* "constructed" | "running" | "returned" | "threw" (of run())
    app_pc,         \* position in the loop of run(): "events" | "process" | "render"
    running_,
    paused_,
    show_help_,
    window_width_,
    window_height_,
    current_audio_position_,
    total_audio_samples_,
    frame_count_,
    fft_processor_,   \* the fft_size the FFTProcessor was constructed with
    freq_resampler_,  \* the arguments the FrequencyResampler was constructed with
    fft_input_,       \* fft_input_.size()
    fft_output_,      \* fft_output_.size()
    quit_seen,        \* history: run() has handled SDL_QUIT, Q or ESC
    events_handled,   \* history: events polled by run() so far
    last_event,       \* history: the last event polled
    \* ---- AudioEngine (audio_engine.hpp) and the RtAudio stream it owns ----
    sample_rate_,
    buffer_size_,
    current_device_id_,
    device_set_,
    is_running_,
    input_level_,     \* <<sum of squares, count>> of the last block: the RMS squared
    error_message_,
    stream,           \* RtAudio: "closed" | "stopped" (open, not running) | "running"
    streams_opened,   \* history: successful openStream calls
    audio_op,         \* history: the last engine call and what it returned
    \* ---- AudioFileLoader (audio_file_loader.hpp) and its caller's arguments ----
    error_,
    info_,
    samples,          \* the caller's output vector
    out_sample_rate,  \* the caller's sample_rate argument: 0 until a load assigns it
    load_op,          \* history: the last load(): its file, "true" or "false" as it returned, its buffers
    load_fault,       \* the process died of a write outside temp_samples
    \* ---- FrequencyResampler (frequency_resampler.hpp) ----
    resampler,        \* the object: scale_, min_freq_, ..., freq_mapping_
    resampler_op,     \* history: the last call, whether it threw, the object before it
    \* ---- FritureApp's audio in its ring (application.cpp) ----
    audio_base,       \* history: total_written when the last audio was generated or loaded
    audios_stored     \* history: generate and load calls so far

ringVars   == <<capacity_, buffer_, write_pos_>>
callerVars == <<total_written, output, last_op, fault, stray>>
concVars   == <<wpc, w_pos, w_count, w_k, w_steps, published,
                rpc, r_p, r_n, r_start, r_k, r_out, r_expect, r_raced, r_steps>>
canvasVars == <<width_, height_, write_offset_, read_offset_, columns_written_,
                pixels_, added, texture, canvas_op, call_args, prior_written, bmp>>
settingsVars == <<fft_size, freq_scale, min_freq, max_freq, spec_min_db, spec_max_db,
                  time_range, sample_rate, settings_op>>
appVars == <<run_state, app_pc, running_, paused_, show_help_, window_width_,
             window_height_, current_audio_position_, total_audio_samples_,
             frame_count_, fft_processor_, freq_resampler_, fft_input_, fft_output_, quit_seen,
             events_handled, last_event>>
audioVars == <<sample_rate_, buffer_size_, current_device_id_, device_set_,
               is_running_, input_level_, error_message_, stream, streams_opened,
               audio_op>>
loaderVars == <<error_, info_, samples, out_sample_rate, load_op, load_fault>>
resamplerVars == <<resampler, resampler_op>>
playbackVars == <<audio_base, audios_stored>>
vars == <<ringVars, callerVars, concVars, canvasVars, settingsVars, appVars, audioVars,
          loaderVars,
          resamplerVars,
          playbackVars>>
\* What the ring's operations leave alone, and what the canvas's leave alone
outsideRing == <<canvasVars, settingsVars, appVars, audioVars,
                 loaderVars,
                 resamplerVars,
                 playbackVars>>
outsideCanvas == <<ringVars, callerVars, concVars, settingsVars, appVars, audioVars,
                   loaderVars,
                   resamplerVars,
                   playbackVars>>
outsideSettings == <<ringVars, callerVars, concVars, canvasVars, appVars, audioVars,
                     loaderVars,
                     resamplerVars,
                     playbackVars>>
\* The application owns a canvas and settings; its sample data is not followed
outsideApp == <<ringVars, callerVars, concVars, audioVars,
                loaderVars,
                resamplerVars,
                playbackVars>>
\* The audio engine owns a ring
outsideAudio == <<concVars, canvasVars, settingsVars, appVars,
                  loaderVars,
                  resamplerVars,
                  playbackVars>>
outsideLoader == <<ringVars, callerVars, concVars, canvasVars, settingsVars, appVars,
                   audioVars,
                   resamplerVars,
                   playbackVars>>
outsideResampler == <<ringVars, callerVars, concVars, canvasVars, settingsVars, appVars,
                      audioVars,
                      loaderVars,
                      playbackVars>>

(***************************************************************************)
(* Bounds of the model.                                                    *)
(***************************************************************************)
MaxCapacity == 3      \* SpecRing: capacities 1..MaxCapacity
MaxCount == 4         \* SpecRing: write/read counts 0..MaxCount
MaxTotal == 7         \* SpecRing: samples written in one behaviour
MaxOffset == 3        \* SpecRing: read offsets 0..MaxOffset
MaxConcTotal == 4     \* SpecConc: samples written in one behaviour
MaxWidth == 3         \* SpecCanvas: widths 1..MaxWidth
MaxHeight == 2        \* SpecCanvas: heights 1..MaxHeight
MaxBlocks == 3        \* SpecAudio: audio callbacks in one behaviour
MaxOpens == 3         \* SpecAudio: successful openStream calls in one behaviour
MaxDataSize == 8      \* SpecLoader: bytes a data chunk declares
MaxAudios == 3        \* SpecPlayback: generate and load calls in one behaviour
MaxEvents == 3        \* SpecApp: events polled in one behaviour
MaxFrames == 3        \* SpecApp: iterations of the loop of run()
MaxColumns == 8       \* SpecCanvas: addColumn calls between two resets

(***************************************************************************)
(* size_t arithmetic.  size_t is 64 bits wide; a value v >= 2^63 is        *)
(* represented by the negative integer v - 2^64 (two's complement), which  *)
(* is what an unsigned subtraction a - b with a < b produces.              *)
(***************************************************************************)
SquareMod(x, c) == (x * x) % c

\* 2^64 mod c, computed without forming 2^64: 2^64 is 2 squared six times
TwoTo64Mod(c) ==
    SquareMod(SquareMod(SquareMod(SquareMod(SquareMod(SquareMod(2 % c, c), c), c), c), c), c)

\* a - b in size_t
SizeSub(a, b) == a - b

\* x % c for a size_t x in the representation above
SizeMod(x, c) == IF x >= 0 THEN x % c ELSE (TwoTo64Mod(c) + (x % c)) % c

Min(a, b) == IF a < b THEN a ELSE b

(***************************************************************************)
(* Samples.  The k-th sample (k = 0, 1, ...) of a write() that follows     *)
(* `before` samples carries its absolute sequence number before + k + 1,   *)
(* so every sample written is distinct; T{} is 0.                          *)
(***************************************************************************)
ZeroSample == 0
Torn == -1            \* an element read while it was being overwritten
OobValues == {-2, 0}  \* what a load from outside the storage can produce

Data(before, count) == [k \in 1..count |-> before + k]

(***************************************************************************)
(* RingBuffer<T>: the arithmetic of write() and read().                    *)
(***************************************************************************)
\* RingBuffer(capacity): buffer_(capacity, T{})
NewBuffer(capacity) == [i \in 0..(capacity - 1) |-> ZeroSample]

\* write(): end_pos
WriteEndPosNoWrap(pos, count, capacity) == pos + count
WriteEndPosReset(pos, count, capacity) ==
    IF pos + count >= capacity THEN 0 ELSE pos + count
WriteEndPos(pos, count, capacity) == (pos + count) % capacity

\* write(): first_chunk
WriteFirstChunk(pos, count, capacity) ==
    IF pos + count <= capacity THEN count ELSE capacity - pos

\* read(): start_pos
ReadStartPos(offset, capacity) == SizeMod(offset, capacity)

\* read(): first_chunk
ReadFirstChunk(start_pos, count, capacity) ==
    IF start_pos + count <= capacity THEN count ELSE capacity - start_pos

\* The storage index the k-th element (k = 0, 1, ...) of a call goes to or
\* comes from: buffer_.data() + pos + k in the first memcpy,
\* buffer_.data() + (k - first_chunk) in the second.  An index >= capacity
\* lies outside the storage.
ElementIndex(pos, first_chunk, k) ==
    IF k < first_chunk THEN pos + k ELSE k - first_chunk

\* write(): the storage after both memcpy calls (the elements that land
\* inside the storage; a later element of the call overwrites an earlier one)
WriteBuffer(buf, pos, data, capacity) ==
    LET count == Len(data)
        first == WriteFirstChunk(pos, count, capacity)
        Hits(i) == {k \in 0..(count - 1) : ElementIndex(pos, first, k) = i}
        Last(S) == CHOOSE k \in S : \A j \in S : j <= k
    IN  [i \in DOMAIN buf |->
            IF Hits(i) = {} THEN buf[i] ELSE data[Last(Hits(i)) + 1]]

\* write(): the second memcpy stores past the end of the storage
WriteOutOfBounds(pos, count, capacity) ==
    \E k \in 0..(count - 1) :
        ElementIndex(pos, WriteFirstChunk(pos, count, capacity), k) >= capacity

\* read(): the elements whose load is outside the storage
ReadOutOfBounds(start_pos, count, capacity) ==
    {k \in 0..(count - 1) :
        ElementIndex(start_pos, ReadFirstChunk(start_pos, count, capacity), k)
            >= capacity}

\* getWritePosition()
GetWritePosition == write_pos_

OpRecord(kind, pos, count, offset, oob) ==
    [kind |-> kind, pos |-> pos, count |-> count, offset |-> offset, oob |-> oob]

(***************************************************************************)
(* RingBuffer<T> used by one thread (SpecRing).                            *)
(***************************************************************************)
\* write(data, count), data being the next `count` samples of the stream.
\* A store outside the storage is undefined behaviour: the call either
\* returns (the stray stores having hit other memory) or the process faults.
WriteCall(count) ==
    /\ ~fault
    /\ LET pos == write_pos_
           data == Data(total_written, count)
           oob == WriteOutOfBounds(pos, count, capacity_)
       IN  /\ buffer_' = WriteBuffer(buffer_, pos, data, capacity_)
           /\ last_op' = OpRecord("write", pos, count, 0, oob)
           /\ stray' = (stray \/ oob)
           /\ \/ /\ write_pos_' = WriteEndPos(pos, count, capacity_)
                 /\ total_written' = total_written + count
                 /\ fault' = FALSE
              \/ /\ oob
                 /\ fault' = TRUE
                 /\ UNCHANGED <<write_pos_, total_written>>
    /\ output' = <<>>
    /\ UNCHANGED capacity_

Write(count) ==
    /\ total_written + count <= MaxTotal
    /\ WriteCall(count)
    /\ UNCHANGED <<concVars, outsideRing>>

\* read(offset, output, count).  A load outside the storage is undefined
\* behaviour: it yields some value, or the process faults.
ReadCall(kind, offset, count) ==
    /\ ~fault
    /\ LET start_pos == ReadStartPos(offset, capacity_)
           first == ReadFirstChunk(start_pos, count, capacity_)
           outside == ReadOutOfBounds(start_pos, count, capacity_)
       IN  /\ last_op' = OpRecord(kind, write_pos_, count, offset, outside # {})
           /\ stray' = (stray \/ outside # {})
           /\ \/ /\ \E g \in [outside -> OobValues] :
                        output' = [k \in 1..count |->
                            IF (k - 1) \in outside THEN g[k - 1]
                            ELSE buffer_[ElementIndex(start_pos, first, k - 1)]]
                 /\ fault' = FALSE
              \/ /\ outside # {}
                 /\ fault' = TRUE
                 /\ UNCHANGED output
    /\ UNCHANGED <<capacity_, buffer_, write_pos_, total_written>>

ReadAt(kind, offset, count) ==
    /\ ReadCall(kind, offset, count)
    /\ UNCHANGED <<concVars, outsideRing>>

Read(offset, count) == ReadAt("read", offset, count)

\* The documented way to read the most recent n samples:
\*   size_t pos = buffer.getWritePosition(); buffer.read(pos - n, output, n);
ReadLatest(n) == ReadAt("latest", SizeSub(GetWritePosition, n), n)

(***************************************************************************)
(* RingBuffer<T> shared by a writer thread and reader threads (SpecConc).  *)
(* memcpy is not atomic: each element is a step of its own.  write_pos_ is *)
(* the only atomic; the store in write() releases, getWritePosition()      *)
(* acquires.  Counts stay within the capacity, so no access is out of      *)
(* bounds here.                                                            *)
(***************************************************************************)
Readers == {1, 2}

\* The capacity divides 2^64, so pos - n in size_t is exact mod
\* capacity and what SpecConc shows is due to the interleaving alone
ConcCapacities == {2}

\* The storage indices the writer's unfinished call has stored to or is
\* storing to: elements 0..w_k of the call, none of them published yet
WriterTouched ==
    IF wpc = "copy"
    THEN {ElementIndex(w_pos, WriteFirstChunk(w_pos, w_count, capacity_), k) :
              k \in 0..Min(w_k, w_count - 1)}
    ELSE {}

\* write(): load pos, compute end_pos and first_chunk
WBegin(count) ==
    /\ wpc = "idle"
    /\ total_written + count <= MaxConcTotal
    /\ wpc' = "copy"
    /\ w_pos' = write_pos_
    /\ w_count' = count
    /\ w_k' = 0
    /\ w_steps' = 1
    /\ UNCHANGED <<ringVars, callerVars, published,
                   rpc, r_p, r_n, r_start, r_k, r_out, r_expect, r_raced, r_steps,
                   outsideRing>>

\* write(): one element of the two memcpy calls
WCopy ==
    /\ wpc = "copy"
    /\ w_k < w_count
    /\ LET first == WriteFirstChunk(w_pos, w_count, capacity_)
           idx == ElementIndex(w_pos, first, w_k)
       IN  buffer_' = [buffer_ EXCEPT ![idx] = Data(total_written, w_count)[w_k + 1]]
    /\ w_k' = w_k + 1
    /\ w_steps' = w_steps + 1
    /\ UNCHANGED <<capacity_, write_pos_, callerVars, wpc, w_pos, w_count, published,
                   rpc, r_p, r_n, r_start, r_k, r_out, r_expect, r_raced, r_steps,
                   outsideRing>>

\* write(): write_pos_.store(end_pos, release), and return
WStore ==
    /\ wpc = "copy"
    /\ w_k = w_count
    /\ write_pos_' = WriteEndPos(w_pos, w_count, capacity_)
    /\ total_written' = total_written + w_count
    /\ published' = buffer_
    /\ wpc' = "idle"
    /\ w_steps' = w_steps + 1
    /\ UNCHANGED <<capacity_, buffer_, output, last_op, fault, stray, w_pos, w_count, w_k,
                   rpc, r_p, r_n, r_start, r_k, r_out, r_expect, r_raced, r_steps,
                   outsideRing>>

\* The n samples that end at cursor p in the storage image buf
LatestOf(buf, p, n, capacity) ==
    [k \in 1..n |-> buf[(p - n + k - 1) % capacity]]

\* Reader r: p = getWritePosition(); read(p - n, out, n) up to start_pos
RBegin(r, n) ==
    /\ rpc[r] \in {"idle", "done"}
    /\ LET p == GetWritePosition
       IN  /\ r_p' = [r_p EXCEPT ![r] = p]
           /\ r_start' = [r_start EXCEPT ![r] = ReadStartPos(SizeSub(p, n), capacity_)]
           /\ r_expect' = [r_expect EXCEPT ![r] = LatestOf(published, p, n, capacity_)]
    /\ r_n' = [r_n EXCEPT ![r] = n]
    /\ r_k' = [r_k EXCEPT ![r] = 0]
    /\ r_out' = [r_out EXCEPT ![r] = <<>>]
    /\ r_raced' = [r_raced EXCEPT ![r] = FALSE]
    /\ r_steps' = [r_steps EXCEPT ![r] = 1]
    /\ rpc' = [rpc EXCEPT ![r] = IF n = 0 THEN "done" ELSE "copy"]
    /\ UNCHANGED <<ringVars, callerVars, wpc, w_pos, w_count, w_k, w_steps, published,
                   outsideRing>>

\* The storage index the writer's memcpy is storing to right now
WriterInFlight ==
    IF wpc = "copy" /\ w_k < w_count
    THEN {ElementIndex(w_pos, WriteFirstChunk(w_pos, w_count, capacity_), w_k)}
    ELSE {}

\* Reader r: one element of the two memcpy calls of read().  Loading an
\* element the writer's unfinished call has stored to is a data race; the
\* load yields what the storage holds at that moment, or a torn value when
\* the writer is storing that very element.
RCopyLocked(r) ==
    /\ rpc[r] = "copy"
    /\ wpc = "idle"
    /\ LET first == ReadFirstChunk(r_start[r], r_n[r], capacity_)
           idx == ElementIndex(r_start[r], first, r_k[r])
       IN  r_out' = [r_out EXCEPT ![r] = Append(@, buffer_[idx])]
    /\ r_k' = [r_k EXCEPT ![r] = @ + 1]
    /\ r_steps' = [r_steps EXCEPT ![r] = @ + 1]
    /\ rpc' = [rpc EXCEPT ![r] = IF r_k[r] + 1 = r_n[r] THEN "done" ELSE "copy"]
    /\ UNCHANGED <<ringVars, callerVars, wpc, w_pos, w_count, w_k, w_steps, published,
                   r_p, r_n, r_start, r_expect, r_raced,
                   outsideRing>>

RCopy(r) ==
    /\ rpc[r] = "copy"
    /\ LET first == ReadFirstChunk(r_start[r], r_n[r], capacity_)
           idx == ElementIndex(r_start[r], first, r_k[r])
           racing == idx \in WriterTouched
       IN  /\ \E v \in (IF idx \in WriterInFlight THEN {buffer_[idx], Torn}
                                                    ELSE {buffer_[idx]}) :
                 r_out' = [r_out EXCEPT ![r] = Append(@, v)]
           /\ r_raced' = [r_raced EXCEPT ![r] = @ \/ racing]
    /\ r_k' = [r_k EXCEPT ![r] = @ + 1]
    /\ r_steps' = [r_steps EXCEPT ![r] = @ + 1]
    /\ rpc' = [rpc EXCEPT ![r] = IF r_k[r] + 1 = r_n[r] THEN "done" ELSE "copy"]
    /\ UNCHANGED <<ringVars, callerVars, wpc, w_pos, w_count, w_k, w_steps, published,
                   r_p, r_n, r_start, r_expect,
                   outsideRing>>

WriterStep == WCopy \/ WStore
ReaderStep(r) == RCopy(r)

(***************************************************************************)
(* SpectrogramImage: the double-width scrolling canvas.                    *)
(* The n-th column added since the last reset (n = 1, 2, ...) has the      *)
(* color (n - 1) * height + y + 1 in row y, so that all pixels added are   *)
(* distinct and none is the zero of a cleared store.                       *)
(***************************************************************************)
ZeroPixel == 0

ColumnData(n, height) == [y \in 0..(height - 1) |-> (n - 1) * height + y + 1]

\* pixels_(2 * width * height, 0x00000000)
NewPixels(width, height) == [i \in 0..(2 * width * height - 1) |-> ZeroPixel]

CanvasOp(kind, threw) == [kind |-> kind, threw |-> threw]

\* No file: what bmp holds while the last call was not saveToBMP()
NoFile == [ok |-> FALSE, width |-> 0, height |-> 0, rows |-> <<>>]

\* A throw std::invalid_argument raised before any member is touched
RejectedAfterReset(kind) ==
    /\ canvas_op' = CanvasOp(kind, TRUE)
    /\ write_offset_' = 0
    /\ read_offset_' = 0
    /\ columns_written_' = 0
    /\ UNCHANGED <<width_, height_, pixels_, added>>
Rejected(kind) ==
    /\ canvas_op' = CanvasOp(kind, TRUE)
    /\ UNCHANGED <<width_, height_, write_offset_, read_offset_,
                   columns_written_, pixels_, added>>

\* addColumn(): size_t dest_offset = write_offset_ * height_
DestOffsetByWidth(write_offset, height) == write_offset * width_
DestOffset(write_offset, height) == write_offset * height

\* addColumn(): write_offset_ = (write_offset_ + 1) % (2 * width_)
NextWriteOffsetSingle(write_offset, width) == (write_offset + 1) % width
NextWriteOffsetNoWrap(write_offset, width) == write_offset + 1
NextWriteOffset(write_offset, width) == (write_offset + 1) % (2 * width)

\* updateReadOffset()
UpdateReadOffsetNoWrap(columns_written, write_offset, width) ==
    IF columns_written <= width THEN 0
    ELSE IF write_offset >= width THEN write_offset - width
    ELSE write_offset
UpdateReadOffsetLate(columns_written, write_offset, width) ==
    IF columns_written <= width + 1 THEN 0
    ELSE IF write_offset >= width THEN write_offset - width
    ELSE write_offset + width
UpdateReadOffset(columns_written, write_offset, width) ==
    IF columns_written <= width THEN 0
    ELSE IF write_offset >= width THEN write_offset - width
    ELSE write_offset + width

\* SpectrogramImage(width, height), width > 0 and height > 0
CanvasNew(width, height) ==
    /\ width_ = width
    /\ height_ = height
    /\ write_offset_ = 0
    /\ read_offset_ = 0
    /\ columns_written_ = 0
    /\ pixels_ = NewPixels(width, height)
    /\ added = <<>>
    /\ texture = <<>>
    /\ canvas_op = CanvasOp("new", FALSE)
    /\ call_args = <<width, height>>
    /\ prior_written = 0
    /\ bmp = NoFile

\* addColumn(column_data, column_height), column_data being the next column
AddColumnCall(column_height) ==
    /\ IF column_height # height_
       THEN Rejected("addColumn")
       ELSE LET column_data == ColumnData(columns_written_ + 1, height_)
                dest_offset == DestOffset(write_offset_, height_)
                written == columns_written_ + 1
                offset == NextWriteOffset(write_offset_, width_)
            IN  /\ pixels_' = [i \in DOMAIN pixels_ |->
                       IF i >= dest_offset /\ i < dest_offset + height_
                       THEN column_data[i - dest_offset] ELSE pixels_[i]]
                /\ columns_written_' = written
                /\ write_offset_' = offset
                /\ read_offset_' = UpdateReadOffset(written, offset, width_)
                /\ added' = Append(added, column_data)
                /\ canvas_op' = CanvasOp("addColumn", FALSE)
                /\ UNCHANGED <<width_, height_>>
    /\ call_args' = <<column_height>>
    /\ prior_written' = columns_written_
    /\ bmp' = NoFile

AddColumn(column_height) ==
    /\ columns_written_ < MaxColumns
    /\ AddColumnCall(column_height)
    /\ UNCHANGED <<texture, outsideCanvas>>

\* clear(): std::fill of the store, then the three counters
ClearKeepsCount ==
    /\ pixels_' = [i \in DOMAIN pixels_ |-> ZeroPixel]
    /\ write_offset_' = 0
    /\ read_offset_' = 0
    /\ added' = <<>>
    /\ UNCHANGED <<width_, height_, columns_written_>>
ClearCanvas ==
    /\ pixels_' = [i \in DOMAIN pixels_ |-> ZeroPixel]
    /\ write_offset_' = 0
    /\ read_offset_' = 0
    /\ columns_written_' = 0
    /\ added' = <<>>
    /\ UNCHANGED <<width_, height_>>

\* clear()
ClearCall ==
    /\ ClearCanvas
    /\ canvas_op' = CanvasOp("clear", FALSE)
    /\ call_args' = <<>>
    /\ prior_written' = columns_written_
    /\ bmp' = NoFile

Clear ==
    /\ ClearCall
    /\ UNCHANGED <<texture, outsideCanvas>>

\* resize(): pixels_.clear(); pixels_.resize(2 * width_ * height_, 0x00000000)
ResizedPixelsKept(pixels, new_width, new_height) ==
    [i \in 0..(2 * new_width * new_height - 1) |->
        IF i \in DOMAIN pixels THEN pixels[i] ELSE ZeroPixel]
ResizedPixels(pixels, new_width, new_height) == NewPixels(new_width, new_height)

\* resize(new_width, new_height)
Resize(new_width, new_height) ==
    /\ IF new_width = 0 \/ new_height = 0
       THEN Rejected("resize")
       ELSE /\ width_' = new_width
            /\ height_' = new_height
            /\ write_offset_' = 0
            /\ read_offset_' = 0
            /\ columns_written_' = 0
            /\ pixels_' = ResizedPixels(pixels_, new_width, new_height)
            /\ added' = <<>>
            /\ canvas_op' = CanvasOp("resize", FALSE)
    /\ call_args' = <<new_width, new_height>>
    /\ prior_written' = columns_written_
    /\ bmp' = NoFile
    /\ UNCHANGED <<texture, outsideCanvas>>

\* saveToBMP(): the pixel rows written after the two headers, first row
\* first; row r (1-based) is image row y = height - r, and its x-th pixel
\* is pixels_[((read_offset_ + x) % (2 * width_)) * height_ + y]
BmpRowsTopDown(pixels, read_offset, width, height) ==
    [r \in 1..height |->
        LET y == r - 1
        IN  [c \in 1..width |->
                LET x == c - 1
                    column_idx == (read_offset + x) % (2 * width)
                    pixel_idx == column_idx * height + y
                IN  pixels[pixel_idx]]]
BmpRows(pixels, read_offset, width, height) ==
    [r \in 1..height |->
        LET y == height - r
        IN  [c \in 1..width |->
                LET x == c - 1
                    column_idx == (read_offset + x) % (2 * width)
                    pixel_idx == column_idx * height + y
                IN  pixels[pixel_idx]]]

\* saveToBMP(filename) const; opens tells whether the ofstream could be opened
SaveToBMP(opens) ==
    /\ bmp' = IF opens
              THEN [ok |-> TRUE, width |-> width_, height |-> height_,
                    rows |-> BmpRows(pixels_, read_offset_, width_, height_)]
              ELSE NoFile
    /\ canvas_op' = CanvasOp("saveToBMP", FALSE)
    /\ call_args' = <<opens>>
    /\ prior_written' = columns_written_
    /\ UNCHANGED <<width_, height_, write_offset_, read_offset_, columns_written_,
                   pixels_, added, texture, outsideCanvas>>

\* FritureApp::renderFrame(): the copy of the canvas into the texture,
\* dst[y * texture_width + x] = pixels[x * texture_height + y]
RenderFrameCall ==
    /\ LET pixels == pixels_
           texture_width == width_
           texture_height == height_
       IN  texture' = [dst_idx \in 0..(texture_width * texture_height - 1) |->
               LET x == dst_idx % texture_width
                   y == dst_idx \div texture_width
               IN  pixels[x * texture_height + y]]
    /\ canvas_op' = CanvasOp("render", FALSE)
    /\ call_args' = <<>>
    /\ prior_written' = columns_written_
    /\ bmp' = NoFile
    /\ UNCHANGED <<width_, height_, write_offset_, read_offset_, columns_written_,
                   pixels_, added>>

RenderFrame ==
    /\ RenderFrameCall
    /\ UNCHANGED outsideCanvas

(***************************************************************************)
(* SpectrogramSettings: the fields and their validating setters.           *)
(* The float fields are modelled by integers: frequencies and sample rates *)
(* in Hz, amplitudes in dB, time_range in tenths of a second (so that the  *)
(* limit 0.1f is 1).  The arguments drawn are even where they are halved,  *)
(* so that rate / 2.0f is the exact integer quotient.                      *)
(***************************************************************************)
DefaultFFTSize == 4096
DefaultMinFreq == 20
DefaultMaxFreq == 24000
DefaultSpecMinDb == -140
DefaultSpecMaxDb == 0
DefaultTimeRange == 100
DefaultSampleRate == 48000
MinFFTSize == 32
MaxFFTSize == 16384
MinDb == -200
MaxDb == 200
MinTimeRange == 1
MaxTimeRange == 10000

\* The arguments the setters are called with
FFTSizeArgs == {16, 32, 48, 8192, 16384, 32768}
MinFreqArgs == {0, 20, 50, 100}
MaxFreqArgs == {0, 50, 20000, 30000}
MinDbArgs == {-250, -140, -120, 0}
MaxDbArgs == {-140, -20, 0, 250}
TimeRangeArgs == {0, 1, 50, 10000, 10001}
SampleRateArgs == {-2, 0, 30, 40, 44100, 96000}

\* a & b on size_t
RECURSIVE BitAnd(_, _)
BitAnd(a, b) ==
    IF a = 0 \/ b = 0 THEN 0
    ELSE (a % 2) * (b % 2) + 2 * BitAnd(a \div 2, b \div 2)

\* isValidFFTSize(size)
IsValidFFTSize(size) ==
    IF size < MinFFTSize \/ size > MaxFFTSize THEN FALSE
    ELSE IF BitAnd(size, size - 1) # 0 THEN FALSE
    ELSE TRUE

\* sample_rate / 2.0f
Nyquist(rate) == rate \div 2

\* isValid()
IsValid ==
    IF ~IsValidFFTSize(fft_size) THEN FALSE
    ELSE IF min_freq <= 0 \/ max_freq <= 0 THEN FALSE
    ELSE IF min_freq >= max_freq THEN FALSE
    ELSE IF max_freq > Nyquist(sample_rate) THEN FALSE
    ELSE IF spec_min_db >= spec_max_db THEN FALSE
    ELSE IF spec_min_db < MinDb \/ spec_max_db > MaxDb THEN FALSE
    ELSE IF time_range < MinTimeRange \/ time_range > MaxTimeRange THEN FALSE
    ELSE TRUE

SettingsOp(kind, accepted) == [kind |-> kind, accepted |-> accepted]

\* SpectrogramSettings settings; (the default member initializers)
SettingsNew ==
    /\ fft_size = DefaultFFTSize
    /\ freq_scale = "Mel"
    /\ min_freq = DefaultMinFreq
    /\ max_freq = DefaultMaxFreq
    /\ spec_min_db = DefaultSpecMinDb
    /\ spec_max_db = DefaultSpecMaxDb
    /\ time_range = DefaultTimeRange
    /\ sample_rate = DefaultSampleRate
    /\ settings_op = SettingsOp("new", TRUE)

\* setFFTSize(size)
SetFFTSize(size) ==
    /\ IF ~IsValidFFTSize(size)
       THEN /\ settings_op' = SettingsOp("setFFTSize", FALSE)
            /\ UNCHANGED fft_size
       ELSE /\ fft_size' = size
            /\ settings_op' = SettingsOp("setFFTSize", TRUE)
    /\ UNCHANGED <<freq_scale, min_freq, max_freq, spec_min_db, spec_max_db,
                   time_range, sample_rate, outsideSettings>>

\* setFrequencyRange(min, max)
SetFrequencyRange(min, max) ==
    /\ IF min <= 0 \/ max <= 0 \/ min >= max
       THEN /\ settings_op' = SettingsOp("setFrequencyRange", FALSE)
            /\ UNCHANGED <<min_freq, max_freq>>
       ELSE IF max > Nyquist(sample_rate)
       THEN /\ settings_op' = SettingsOp("setFrequencyRange", FALSE)
            /\ UNCHANGED <<min_freq, max_freq>>
       ELSE /\ min_freq' = min
            /\ max_freq' = max
            /\ settings_op' = SettingsOp("setFrequencyRange", TRUE)
    /\ UNCHANGED <<fft_size, freq_scale, spec_min_db, spec_max_db, time_range,
                   sample_rate, outsideSettings>>

\* setAmplitudeRange(min, max)
SetAmplitudeRange(min, max) ==
    /\ IF min >= max
       THEN /\ settings_op' = SettingsOp("setAmplitudeRange", FALSE)
            /\ UNCHANGED <<spec_min_db, spec_max_db>>
       ELSE IF min < MinDb \/ max > MaxDb
       THEN /\ settings_op' = SettingsOp("setAmplitudeRange", FALSE)
            /\ UNCHANGED <<spec_min_db, spec_max_db>>
       ELSE /\ spec_min_db' = min
            /\ spec_max_db' = max
            /\ settings_op' = SettingsOp("setAmplitudeRange", TRUE)
    /\ UNCHANGED <<fft_size, freq_scale, min_freq, max_freq, time_range,
                   sample_rate, outsideSettings>>

\* setTimeRange(range)
SetTimeRange(range) ==
    /\ IF range < MinTimeRange \/ range > MaxTimeRange
       THEN /\ settings_op' = SettingsOp("setTimeRange", FALSE)
            /\ UNCHANGED time_range
       ELSE /\ time_range' = range
            /\ settings_op' = SettingsOp("setTimeRange", TRUE)
    /\ UNCHANGED <<fft_size, freq_scale, min_freq, max_freq, spec_min_db,
                   spec_max_db, sample_rate, outsideSettings>>

\* setSampleRate(rate)
SetSampleRate(rate) ==
    /\ IF rate <= 0
       THEN /\ settings_op' = SettingsOp("setSampleRate", FALSE)
            /\ UNCHANGED <<sample_rate, max_freq>>
       ELSE LET nyquist == Nyquist(rate)
            IN  /\ sample_rate' = rate
                /\ max_freq' = IF max_freq > nyquist THEN nyquist ELSE max_freq
                /\ settings_op' = SettingsOp("setSampleRate", TRUE)
    /\ UNCHANGED <<fft_size, freq_scale, min_freq, spec_min_db, spec_max_db,
                   time_range, outsideSettings>>

(***************************************************************************)
(* FritureApp: construction, the loading calls made before run(), and the  *)
(* loop of run() taken one callee at a time: handleEvents() polls events   *)
(* until the queue is empty, then the audio step, then renderFrame().      *)
(* Sample counts and positions are exact; the sample values written to the *)
(* ring are not followed here.  Whether a frame is due is the clock's      *)
(* choice.                                                                 *)
(***************************************************************************)
ChirpDuration == 5

\* The windows the application is constructed with and may be resized to
WindowSizes == {<<2, 4>>}
ResizedTo == {<<3, 2>>}
\* What AudioFileLoader::load reports for the files tried
FileRates == {8000, 44100, 48000}
FileSamples == {0, 50000}

Keys == {"q", "ESCAPE", "SPACE", "h", "r", "c", "1", "2", "3", "4", "5",
         "EQUALS", "PLUS", "MINUS", "other"}
Event(type, sym, data1, data2) ==
    [type |-> type, sym |-> sym, data1 |-> data1, data2 |-> data2]
Events ==
    {Event("SDL_QUIT", "", 0, 0), Event("SDL_MOUSEMOTION", "", 0, 0),
     Event("SDL_WINDOWEVENT", "other", 0, 0)}
    \cup {Event("SDL_KEYDOWN", sym, 0, 0) : sym \in Keys}
    \cup {Event("SDL_WINDOWEVENT", "RESIZED", size[1], size[2]) : size \in ResizedTo}
NoEvent == Event("none", "", 0, 0)

\* static_cast<size_t>(window_height_ * 0.6f)
SpectrogramHeight(window_height) == (window_height * 6) \div 10

\* getSamplesPerColumn(): fft_size * (1.0f - overlap_percent / 100.0f)
SamplesPerColumnNoOverlap(size) == size
SamplesPerColumn(size) == size \div 4

\* FrequencyResampler::validate(): TRUE when it does not throw
ResamplerValid(min, max, rate, size, output_height) ==
    IF min <= 0 THEN FALSE
    ELSE IF max <= min THEN FALSE
    ELSE IF max > Nyquist(rate) THEN FALSE
    ELSE IF output_height = 0 THEN FALSE
    ELSE IF size = 0 \/ BitAnd(size, size - 1) # 0 THEN FALSE
    ELSE TRUE

Resampler(scale, min, max, rate, size, output_height) ==
    [scale |-> scale, min_freq |-> min, max_freq |-> max, sample_rate |-> rate,
     fft_size |-> size, output_height |-> output_height]

\* FritureApp(window_width, window_height): the members after construction
AppNew(window_width, window_height) ==
    /\ run_state = "constructed"
    /\ app_pc = "events"
    /\ running_ = FALSE
    /\ paused_ = FALSE
    /\ show_help_ = FALSE
    /\ window_width_ = window_width
    /\ window_height_ = window_height
    /\ current_audio_position_ = 0
    /\ total_audio_samples_ = 0
    /\ frame_count_ = 0
    /\ fft_processor_ = DefaultFFTSize
    /\ freq_resampler_ = Resampler("Mel", DefaultMinFreq, DefaultMaxFreq,
                                   DefaultSampleRate, DefaultFFTSize,
                                   SpectrogramHeight(window_height))
    /\ fft_input_ = DefaultFFTSize
    /\ fft_output_ = DefaultFFTSize \div 2 + 1
    /\ quit_seen = FALSE
    /\ events_handled = 0
    /\ last_event = NoEvent

\* generateChirp(f_start, f_end, duration)
GenerateChirp(duration) ==
    /\ run_state = "constructed"
    /\ total_audio_samples_' = duration * sample_rate
    /\ current_audio_position_' = 0
    /\ UNCHANGED <<run_state, app_pc, running_, paused_, show_help_, window_width_,
                   window_height_, frame_count_, fft_processor_, freq_resampler_,
                   fft_input_, fft_output_, quit_seen, events_handled, last_event>>
    /\ UNCHANGED <<canvasVars, settingsVars, outsideApp>>

\* loadAudioFromFile(filename); loaded, file_sample_rate and num_samples are
\* what AudioFileLoader::load returns for the file
LoadAudioFromFile(loaded, file_sample_rate, num_samples) ==
    /\ run_state = "constructed"
    /\ IF ~loaded
       THEN /\ total_audio_samples_' = ChirpDuration * sample_rate
            /\ UNCHANGED sample_rate
       ELSE /\ sample_rate' =
                   IF file_sample_rate - sample_rate > 1
                      \/ sample_rate - file_sample_rate > 1
                   THEN file_sample_rate ELSE sample_rate
            /\ total_audio_samples_' = num_samples
    /\ current_audio_position_' = 0
    /\ UNCHANGED <<fft_size, freq_scale, min_freq, max_freq, spec_min_db, spec_max_db,
                   time_range, settings_op>>
    /\ UNCHANGED <<run_state, app_pc, running_, paused_, show_help_, window_width_,
                   window_height_, frame_count_, fft_processor_, freq_resampler_,
                   fft_input_, fft_output_, quit_seen, events_handled, last_event>>
    /\ UNCHANGED <<canvasVars, outsideApp>>

\* run(), up to the first test of while (running_)
RunBegin ==
    /\ run_state = "constructed"
    /\ run_state' = "running"
    /\ running_' = TRUE
    /\ app_pc' = "events"
    /\ UNCHANGED <<paused_, show_help_, window_width_, window_height_,
                   current_audio_position_, total_audio_samples_, frame_count_,
                   fft_processor_, freq_resampler_, fft_input_, fft_output_, quit_seen,
                   events_handled, last_event>>
    /\ UNCHANGED <<canvasVars, settingsVars, outsideApp>>

\* updateProcessingComponents() with settings_.freq_scale and
\* settings_.fft_size already assigned by the key handler: the new
\* FFTProcessor, then the new FrequencyResampler, whose constructor throws
\* when validate() does; the exception leaves run()
UpdateProcessingComponents(scale, size) ==
    IF ~IsValidFFTSize(size)
    THEN /\ run_state' = "threw"
         /\ UNCHANGED <<fft_processor_, freq_resampler_, fft_input_, fft_output_, running_,
                        canvasVars>>
    ELSE IF ~ResamplerValid(min_freq, max_freq, sample_rate, size, height_)
    THEN /\ run_state' = "threw"
         /\ fft_processor_' = size
         /\ UNCHANGED <<freq_resampler_, fft_input_, fft_output_, running_, canvasVars>>
    ELSE /\ fft_processor_' = size
         /\ freq_resampler_' = Resampler(scale, min_freq, max_freq, sample_rate,
                                         size, height_)
         /\ fft_input_' = size
         /\ fft_output_' = size \div 2 + 1
         /\ ClearCall
         /\ UNCHANGED <<texture, run_state, running_>>

\* The frequency scale a scale key selects
ScaleOfKey(sym) ==
    CASE sym = "1" -> "Linear"
      [] sym = "2" -> "Logarithmic"
      [] sym = "3" -> "Mel"
      [] sym = "4" -> "ERB"
      [] sym = "5" -> "Octave"

\* handleKeyboard(event)
HandleKeyboard(sym) ==
    CASE sym \in {"q", "ESCAPE"} ->
            /\ running_' = FALSE
            /\ UNCHANGED <<run_state, paused_, show_help_, current_audio_position_,
                           fft_processor_, freq_resampler_, fft_input_, fft_output_,
                           fft_size, freq_scale, canvasVars>>
      [] sym = "SPACE" ->
            /\ paused_' = ~paused_
            /\ UNCHANGED <<run_state, running_, show_help_, current_audio_position_,
                           fft_processor_, freq_resampler_, fft_input_, fft_output_,
                           fft_size, freq_scale, canvasVars>>
      [] sym = "h" ->
            /\ show_help_' = ~show_help_
            /\ UNCHANGED <<run_state, running_, paused_, current_audio_position_,
                           fft_processor_, freq_resampler_, fft_input_, fft_output_,
                           fft_size, freq_scale, canvasVars>>
      [] sym = "r" ->
            /\ current_audio_position_' = 0
            /\ ClearCall
            /\ UNCHANGED <<run_state, running_, paused_, show_help_, texture,
                           fft_processor_, freq_resampler_, fft_input_, fft_output_,
                           fft_size, freq_scale>>
      [] sym \in {"1", "2", "3", "4", "5"} ->
            /\ freq_scale' = ScaleOfKey(sym)
            /\ UpdateProcessingComponents(ScaleOfKey(sym), fft_size)
            /\ UNCHANGED <<paused_, show_help_, current_audio_position_, fft_size>>
      [] sym \in {"EQUALS", "PLUS"} ->
            IF fft_size < MaxFFTSize
            THEN /\ fft_size' = fft_size * 2
                 /\ UpdateProcessingComponents(freq_scale, fft_size * 2)
                 /\ UNCHANGED <<paused_, show_help_, current_audio_position_,
                                freq_scale>>
            ELSE UNCHANGED <<run_state, running_, paused_, show_help_,
                             current_audio_position_, fft_processor_,
                             freq_resampler_, fft_input_, fft_output_, fft_size, freq_scale,
                             canvasVars>>
      [] sym = "MINUS" ->
            IF fft_size > MinFFTSize
            THEN /\ fft_size' = fft_size \div 2
                 /\ UpdateProcessingComponents(freq_scale, fft_size \div 2)
                 /\ UNCHANGED <<paused_, show_help_, current_audio_position_,
                                freq_scale>>
            ELSE UNCHANGED <<run_state, running_, paused_, show_help_,
                             current_audio_position_, fft_processor_,
                             freq_resampler_, fft_input_, fft_output_, fft_size, freq_scale,
                             canvasVars>>
      [] OTHER ->
            UNCHANGED <<run_state, running_, paused_, show_help_,
                        current_audio_position_, fft_processor_, freq_resampler_,
                        fft_input_, fft_output_, fft_size, freq_scale, canvasVars>>

\* handleEvents(): one pass of its loop, SDL_PollEvent having returned event
HandleEvent(event) ==
    /\ run_state = "running"
    /\ app_pc = "events"
    /\ events_handled < MaxEvents
    /\ events_handled' = events_handled + 1
    /\ last_event' = event
    /\ quit_seen' = (quit_seen \/ event.type = "SDL_QUIT"
                        \/ (event.type = "SDL_KEYDOWN" /\ event.sym \in {"q", "ESCAPE"}))
    /\ CASE event.type = "SDL_QUIT" ->
              /\ running_' = FALSE
              /\ UNCHANGED <<run_state, paused_, show_help_, window_width_,
                             window_height_, current_audio_position_, fft_processor_,
                             freq_resampler_, fft_input_, fft_output_, fft_size, freq_scale,
                             canvasVars>>
         [] event.type = "SDL_KEYDOWN" ->
              /\ HandleKeyboard(event.sym)
              /\ UNCHANGED <<window_width_, window_height_>>
         [] event.type = "SDL_WINDOWEVENT" /\ event.sym = "RESIZED" ->
              /\ window_width_' = event.data1
              /\ window_height_' = event.data2
              /\ UNCHANGED <<run_state, running_, paused_, show_help_,
                             current_audio_position_, fft_processor_, freq_resampler_,
                             fft_input_, fft_output_, fft_size, freq_scale, canvasVars>>
         [] OTHER ->
              UNCHANGED <<run_state, running_, paused_, show_help_, window_width_,
                          window_height_, current_audio_position_, fft_processor_,
                          freq_resampler_, fft_input_, fft_output_, fft_size, freq_scale,
                          canvasVars>>
    /\ UNCHANGED <<app_pc, total_audio_samples_, frame_count_>>
    /\ UNCHANGED <<min_freq, max_freq, spec_min_db, spec_max_db, time_range,
                   sample_rate, settings_op, outsideApp>>

\* handleEvents() returns: SDL_PollEvent found the queue empty
EventsDone ==
    /\ run_state = "running"
    /\ app_pc = "events"
    /\ frame_count_ < MaxFrames
    /\ app_pc' = "process"
    /\ UNCHANGED <<run_state, running_, paused_, show_help_, window_width_,
                   window_height_, current_audio_position_, total_audio_samples_,
                   frame_count_, fft_processor_, freq_resampler_, fft_input_, fft_output_,
                   quit_seen, events_handled, last_event>>
    /\ UNCHANGED <<canvasVars, settingsVars, outsideApp>>

\* processAudioFrame()
ProcessAudioFrame ==
    LET samples_needed == fft_size
        hop_size == SamplesPerColumn(fft_size)
    IN  IF current_audio_position_ + samples_needed > total_audio_samples_
        THEN UNCHANGED <<current_audio_position_, canvasVars>>
        ELSE /\ current_audio_position_' = current_audio_position_ + hop_size
             /\ AddColumnCall(height_)
             /\ UNCHANGED texture

\* run(): the audio step of one iteration; due tells whether the time since
\* the last FFT frame has reached the time per column
ProcessAudio(due) ==
    /\ run_state = "running"
    /\ app_pc = "process"
    /\ IF ~paused_ /\ current_audio_position_ < total_audio_samples_ /\ due
       THEN ProcessAudioFrame
       ELSE UNCHANGED <<current_audio_position_, canvasVars>>
    /\ app_pc' = "render"
    /\ UNCHANGED <<run_state, running_, paused_, show_help_, window_width_,
                   window_height_, total_audio_samples_, frame_count_,
                   fft_processor_, freq_resampler_, fft_input_, fft_output_, quit_seen,
                   events_handled, last_event>>
    /\ UNCHANGED <<settingsVars, outsideApp>>

\* run(): renderFrame(), frame_count_++ and the test of while (running_)
RenderAndLoop ==
    /\ run_state = "running"
    /\ app_pc = "render"
    /\ RenderFrameCall
    /\ frame_count_' = frame_count_ + 1
    /\ IF running_
       THEN /\ app_pc' = "events"
            /\ UNCHANGED run_state
       ELSE /\ run_state' = "returned"
            /\ UNCHANGED app_pc
    /\ UNCHANGED <<running_, paused_, show_help_, window_width_, window_height_,
                   current_audio_position_, total_audio_samples_, fft_processor_,
                   freq_resampler_, fft_input_, fft_output_, quit_seen, events_handled,
                   last_event>>
    /\ UNCHANGED <<settingsVars, outsideApp>>

(***************************************************************************)
(* AudioEngine and its RtAudio stream.  The RtAudio object holds at most   *)
(* one stream; openStream and startStream may fail (RtAudioError); a       *)
(* callback that returns non-zero makes RtAudio stop the stream, which     *)
(* stays open.  The callback runs on the audio thread while the stream is  *)
(* running.                                                                *)
(***************************************************************************)
\* Input channels of the devices getDeviceInfo knows
DeviceInputs == [device_id \in 0..2 |-> IF device_id = 1 THEN 0 ELSE 2]
DefaultInputDevice == 0
NoError == ""

AudioOp(kind, result) == [kind |-> kind, result |-> result]

\* AudioEngine(sample_rate, buffer_size, ring_buffer_seconds): the members
AudioNew(engine_rate, buffer_size) ==
    /\ sample_rate_ = engine_rate
    /\ buffer_size_ = buffer_size
    /\ current_device_id_ = 0
    /\ device_set_ = FALSE
    /\ is_running_ = FALSE
    /\ input_level_ = <<0, 0>>
    /\ error_message_ = NoError
    /\ stream = "closed"
    /\ streams_opened = 0
    /\ audio_op = AudioOp("new", TRUE)

\* stop(): the stream after the isStreamOpen / isStreamRunning tests,
\* stopStream and closeStream
StreamAfterStopIfRunning(s) == IF s = "running" THEN "closed" ELSE s
StreamAfterStop(s) == "closed"

\* setInputDevice(device_id)
SetInputDevice(device_id) ==
    /\ stream' = IF is_running_ THEN StreamAfterStop(stream) ELSE stream
    /\ is_running_' = FALSE
    /\ IF DeviceInputs[device_id] = 0
       THEN /\ error_message_' = "Device has no input channels or is not available"
            /\ audio_op' = AudioOp("setInputDevice", FALSE)
            /\ UNCHANGED <<current_device_id_, device_set_>>
       ELSE /\ current_device_id_' = device_id
            /\ device_set_' = TRUE
            /\ audio_op' = AudioOp("setInputDevice", TRUE)
            /\ UNCHANGED error_message_
    /\ UNCHANGED <<sample_rate_, buffer_size_, input_level_, streams_opened>>
    /\ UNCHANGED <<ringVars, callerVars, outsideAudio>>

\* start(); opens and starts tell whether the device lets openStream and
\* startStream succeed.  openStream throws when a stream is already open.
Start(opens, starts) ==
    /\ streams_opened < MaxOpens
    /\ IF is_running_
       THEN /\ audio_op' = AudioOp("start", TRUE)
            /\ UNCHANGED <<current_device_id_, device_set_, is_running_,
                           error_message_, stream, streams_opened>>
       ELSE /\ current_device_id_' =
                   IF device_set_ THEN current_device_id_ ELSE DefaultInputDevice
            /\ device_set_' = TRUE
            /\ IF ~opens \/ stream # "closed"
               THEN /\ error_message_' = "Failed to open stream"
                    /\ audio_op' = AudioOp("start", FALSE)
                    /\ UNCHANGED <<is_running_, stream, streams_opened>>
               ELSE IF ~starts
               THEN /\ error_message_' = "Failed to start stream"
                    /\ audio_op' = AudioOp("start", FALSE)
                    /\ stream' = "closed"
                    /\ streams_opened' = streams_opened + 1
                    /\ UNCHANGED is_running_
               ELSE /\ is_running_' = TRUE
                    /\ error_message_' = NoError
                    /\ stream' = "running"
                    /\ streams_opened' = streams_opened + 1
                    /\ audio_op' = AudioOp("start", TRUE)
    /\ UNCHANGED <<sample_rate_, buffer_size_, input_level_>>
    /\ UNCHANGED <<ringVars, callerVars, outsideAudio>>

\* stop()
Stop ==
    /\ IF ~is_running_
       THEN UNCHANGED <<is_running_, stream>>
       ELSE /\ stream' = StreamAfterStop(stream)
            /\ is_running_' = FALSE
    /\ audio_op' = AudioOp("stop", TRUE)
    /\ UNCHANGED <<sample_rate_, buffer_size_, current_device_id_, device_set_,
                   input_level_, error_message_, streams_opened>>
    /\ UNCHANGED <<ringVars, callerVars, outsideAudio>>

\* calculateRMS(buffer, count): the sum of squares and the count it divides by
SumSquares(data) ==
    LET Sq(k) == data[k] * data[k]
        Sum[k \in 0..Len(data)] == IF k = 0 THEN 0 ELSE Sum[k - 1] + Sq(k)
    IN  Sum[Len(data)]
CalculateRMS(data) == IF Len(data) = 0 THEN <<0, 0>> ELSE <<SumSquares(data), Len(data)>>

\* audioCallback(..., input_buffer, frame_count, ...) on the audio thread;
\* has_input tells whether input_buffer is non-null.  It returns 1 without
\* an input buffer, and RtAudio then stops the stream; otherwise
\* processAudioCallback writes the block to the ring and stores the level.
AudioCallback(frame_count, has_input) ==
    /\ stream = "running"
    /\ total_written + frame_count <= MaxBlocks * buffer_size_
    /\ IF ~has_input
       THEN /\ stream' = "stopped"
            /\ audio_op' = AudioOp("audioCallback", 1)
            /\ UNCHANGED <<input_level_, ringVars, callerVars>>
       ELSE /\ WriteCall(frame_count)
            /\ input_level_' = CalculateRMS(Data(total_written, frame_count))
            /\ audio_op' = AudioOp("audioCallback", 0)
            /\ UNCHANGED stream
    /\ UNCHANGED <<sample_rate_, buffer_size_, current_device_id_, device_set_,
                   is_running_, error_message_, streams_opened>>
    /\ UNCHANGED outsideAudio

(***************************************************************************)
(* AudioFileLoader.  A file is what fopen and fread see of it: whether it  *)
(* opens, the RIFF and WAVE tags, and its chunks in order.  A chunk has    *)
(* its id, the size its header declares, the bytes of its body that are    *)
(* really in the file (present), and for a 'fmt ' chunk the four fields    *)
(* parseFmtChunk keeps.  Only the last chunk of a file can be cut short.   *)
(* Byte j of the data chunk is the number j: a converted sample is the     *)
(* tuple of the bytes it was made from, and a mono sample made from a      *)
(* stereo frame is the pair of its two samples.                            *)
(***************************************************************************)
WAVE_FORMAT_PCM == 1
WAVE_FORMAT_IEEE_FLOAT == 3
FmtChunkSize == 16
FloatBytes == 4

\* WavInfo's default member initialisers (duration_sec is not followed)
WavInfo ==
    [sample_rate |-> 0, channels |-> 0, bits_per_sample |-> 0, audio_format |-> 0,
     num_samples |-> 0]

Chunk(chunk_id, chunk_size, present, audio_format, num_channels, rate, bits) ==
    [chunk_id |-> chunk_id, chunk_size |-> chunk_size, present |-> present,
     audio_format |-> audio_format, num_channels |-> num_channels,
     sample_rate |-> rate, bits_per_sample |-> bits]

WavFile(opens, riff_id, wave_id, chunks) ==
    [opens |-> opens, riff_id |-> riff_id, wave_id |-> wave_id, chunks |-> chunks]

Parsed(ok, error, info) == [ok |-> ok, error |-> error, info |-> info]

\* parseFmtChunk(fp, chunk_size): the result, the error it set, and info_
ParseFmtChunk(info, chunk) ==
    IF chunk.chunk_size < FmtChunkSize
    THEN Parsed(FALSE, "Invalid 'fmt ' chunk size", info)
    ELSE IF chunk.present < FmtChunkSize
    THEN Parsed(FALSE, "Failed to read 'fmt ' chunk data", info)
    ELSE IF chunk.audio_format # WAVE_FORMAT_PCM /\ chunk.audio_format # WAVE_FORMAT_IEEE_FLOAT
    THEN Parsed(FALSE, "Unsupported audio format (only PCM and IEEE float supported)", info)
    ELSE IF chunk.num_channels # 1 /\ chunk.num_channels # 2
    THEN Parsed(FALSE, "Unsupported channel count (only mono and stereo supported)", info)
    ELSE IF chunk.bits_per_sample # 16 /\ chunk.bits_per_sample # 24
            /\ chunk.bits_per_sample # 32
    THEN Parsed(FALSE, "Unsupported bit depth (only 16, 24, 32 supported)", info)
    ELSE Parsed(TRUE, NoError,
                [info EXCEPT !.audio_format = chunk.audio_format,
                             !.channels = chunk.num_channels,
                             !.sample_rate = chunk.sample_rate,
                             !.bits_per_sample = chunk.bits_per_sample])

\* The chunk loop of parseWavHeader from chunk i on; readChunkHeader fails
\* at the end of the file
RECURSIVE ReadChunks(_, _, _)
ReadChunks(chunks, i, found) ==
    IF i > Len(chunks) \/ (found.fmt /\ found.data) THEN found
    ELSE IF chunks[i].chunk_id = "fmt "
    THEN LET fmt == ParseFmtChunk(found.info, chunks[i])
         IN  IF ~fmt.ok THEN [found EXCEPT !.failed = TRUE, !.error = fmt.error]
             ELSE ReadChunks(chunks, i + 1, [found EXCEPT !.fmt = TRUE, !.info = fmt.info])
    ELSE IF chunks[i].chunk_id = "data"
    THEN ReadChunks(chunks, i + 1,
                    [found EXCEPT !.data = TRUE, !.data_size = chunks[i].chunk_size,
                                  !.present = chunks[i].present])
    ELSE ReadChunks(chunks, i + 1, found)

\* parseWavHeader(fp, data_offset, data_size): the result, the error it set,
\* info_, data_size, and the bytes the file holds from data_offset
ParseWavHeader(file) ==
    LET found == ReadChunks(file.chunks, 1,
                            [fmt |-> FALSE, data |-> FALSE, failed |-> FALSE,
                             error |-> NoError, info |-> WavInfo, data_size |-> 0,
                             present |-> 0])
        header(ok, error) == [ok |-> ok, error |-> error, info |-> found.info,
                              data_size |-> found.data_size, present |-> found.present]
    IN  IF file.riff_id # "RIFF"
        THEN [ok |-> FALSE, error |-> "Not a valid RIFF file", info |-> WavInfo,
              data_size |-> 0, present |-> 0]
        ELSE IF file.wave_id # "WAVE"
        THEN [ok |-> FALSE, error |-> "Not a valid WAVE file", info |-> WavInfo,
              data_size |-> 0, present |-> 0]
        ELSE IF found.failed THEN header(FALSE, found.error)
        ELSE IF ~found.fmt THEN header(FALSE, "Missing 'fmt ' chunk")
        ELSE IF ~found.data THEN header(FALSE, "Missing 'data' chunk")
        ELSE header(TRUE, NoError)

\* std::vector<uint8_t> raw_data(data_size) after a complete fread
RawData(data_size) == [j \in 0..(data_size - 1) |-> j]

\* convertPCM16ToFloat, convertPCM24ToFloat, convertPCM32ToFloat: dst[i] is
\* made of the bytes_per_sample bytes of src from i * bytes_per_sample on
ConvertPCMToFloat(src, bytes_per_sample, num_samples) ==
    [i \in 0..(num_samples - 1) |->
        [k \in 1..bytes_per_sample |-> src[i * bytes_per_sample + k - 1]]]

\* The bytes memcpy(temp_samples.data(), raw_data.data(), data_size) writes
\* past the end of the total_samples floats of temp_samples
MemcpyOverrun(data_size, total_samples) == data_size - FloatBytes * total_samples

\* temp_samples after the memcpy: the floats that lie inside the vector
CopyFloats(src, total_samples) ==
    [i \in 0..(total_samples - 1) |-> [k \in 1..FloatBytes |-> src[i * FloatBytes + k - 1]]]

\* stereoToMono(stereo, mono, num_frames)
StereoToMono(stereo, num_frames) ==
    [i \in 0..(num_frames - 1) |-> <<stereo[i * 2], stereo[i * 2 + 1]>>]

\* num_frames
Frames(total_samples, channels) == total_samples \div channels

AsVector(array) == [i \in 1..Cardinality(DOMAIN array) |-> array[i - 1]]

LoadOp(file, result, data_size, total_samples, raw_read, temp_written, stereo_read) ==
    [file |-> file, result |-> result, data_size |-> data_size,
     total_samples |-> total_samples, raw_read |-> raw_read,
     temp_written |-> temp_written, stereo_read |-> stereo_read]

NoLoad == LoadOp(WavFile(FALSE, "", "", <<>>), "none", 0, 0, 0, 0, 0)

\* AudioFileLoader(), and a caller that has not called load yet
LoaderNew ==
    /\ error_ = NoError
    /\ info_ = WavInfo
    /\ samples = <<>>
    /\ out_sample_rate = 0
    /\ load_op = NoLoad
    /\ load_fault = FALSE

LoadFailedKeepsSamples(file, error, info, data_size, total_samples) ==
    /\ error_' = error
    /\ info_' = info
    /\ samples' = samples
    /\ load_op' = LoadOp(file, "false", data_size, total_samples, 0, 0, 0)
    /\ UNCHANGED <<out_sample_rate, load_fault>>

\* load() returned false with this error, before it converted anything
LoadFailed(file, error, info, data_size, total_samples) ==
    /\ error_' = error
    /\ info_' = info
    /\ samples' = <<>>
    /\ load_op' = LoadOp(file, "false", data_size, total_samples, 0, 0, 0)
    /\ UNCHANGED <<out_sample_rate, load_fault>>

\* load(filename, samples, sample_rate).  raw_read is the number of bytes of
\* raw_data the conversion read, temp_written the bytes it wrote from
\* temp_samples.data() on, stereo_read the floats stereoToMono read.  A
\* memcpy past the end of temp_samples is undefined: the process dies of
\* it, or the bytes land in memory the program does not look at again.
Load(file) ==
    /\ ~load_fault
    /\ LET header == ParseWavHeader(file)
           bytes_per_sample == header.info.bits_per_sample \div 8
           total_samples == header.data_size \div bytes_per_sample
           num_frames == Frames(total_samples, header.info.channels)
           info == [header.info EXCEPT !.num_samples = num_frames]
           bytes_read == IF header.present < header.data_size THEN header.present
                         ELSE header.data_size
           raw_data == RawData(header.data_size)
           is_float == info.audio_format = WAVE_FORMAT_IEEE_FLOAT
           temp_samples == IF is_float THEN CopyFloats(raw_data, total_samples)
                           ELSE ConvertPCMToFloat(raw_data, bytes_per_sample, total_samples)
           raw_read == IF is_float THEN header.data_size
                       ELSE total_samples * bytes_per_sample
           overrun == IF is_float THEN MemcpyOverrun(header.data_size, total_samples)
                      ELSE 0
           temp_written == FloatBytes * total_samples + overrun
       IN  IF ~file.opens
           THEN LoadFailed(file, "Failed to open file", WavInfo, 0, 0)
           ELSE IF ~header.ok
           THEN LoadFailed(file, header.error, header.info, 0, 0)
           ELSE IF bytes_read # header.data_size
           THEN LoadFailed(file, "Failed to read complete audio data", info,
                           header.data_size, total_samples)
           ELSE IF ~is_float /\ info.audio_format # WAVE_FORMAT_PCM
           THEN LoadFailed(file, "Unsupported audio format", info, header.data_size,
                           total_samples)
           ELSE IF is_float /\ info.bits_per_sample # 32
           THEN LoadFailed(file, "Unsupported float bit depth", info, header.data_size,
                           total_samples)
           ELSE IF ~is_float /\ info.bits_per_sample \notin {16, 24, 32}
           THEN LoadFailed(file, "Unsupported PCM bit depth", info, header.data_size,
                           total_samples)
           ELSE \/ /\ overrun > 0
                   /\ load_fault' = TRUE
                   /\ load_op' = LoadOp(file, "died", header.data_size, total_samples,
                                        raw_read, temp_written, 0)
                   /\ error_' = NoError
                   /\ info_' = info
                   /\ samples' = <<>>
                   /\ UNCHANGED out_sample_rate
                \/ IF info.channels = 1
                   THEN /\ samples' = AsVector(temp_samples)
                        /\ error_' = NoError
                        /\ info_' = info
                        /\ out_sample_rate' = info.sample_rate
                        /\ load_op' = LoadOp(file, "true", header.data_size, total_samples,
                                             raw_read, temp_written, 0)
                        /\ UNCHANGED load_fault
                   ELSE IF info.channels = 2
                   THEN /\ samples' = AsVector(StereoToMono(temp_samples, num_frames))
                        /\ error_' = NoError
                        /\ info_' = info
                        /\ out_sample_rate' = info.sample_rate
                        /\ load_op' = LoadOp(file, "true", header.data_size, total_samples,
                                             raw_read, temp_written, 2 * num_frames)
                        /\ UNCHANGED load_fault
                   ELSE LoadFailed(file, "Unsupported channel count", info,
                                   header.data_size, total_samples)
    /\ UNCHANGED outsideLoader


\* The files the loader is given
FmtChunks ==
    {Chunk("fmt ", FmtChunkSize, FmtChunkSize, audio_format, num_channels, 8000, bits) :
        audio_format \in {1, 3}, num_channels \in {1, 2}, bits \in {16, 24, 32}}
    \cup {Chunk("fmt ", FmtChunkSize, FmtChunkSize, 2, 1, 8000, 16),
          Chunk("fmt ", FmtChunkSize, FmtChunkSize, 1, 3, 8000, 16),
          Chunk("fmt ", FmtChunkSize, FmtChunkSize, 1, 1, 8000, 8),
          Chunk("fmt ", FmtChunkSize, FmtChunkSize, 1, 1, 44100, 16),
          Chunk("fmt ", 18, 18, 3, 2, 44100, 32),
          Chunk("fmt ", 14, 14, 1, 1, 8000, 16)}
CutFmtChunk == Chunk("fmt ", FmtChunkSize, 10, 1, 1, 8000, 16)
WholeDataChunks == {Chunk("data", n, n, 0, 0, 0, 0) : n \in 0..MaxDataSize}
CutDataChunks == {Chunk("data", n, n - 1, 0, 0, 0, 0) : n \in 1..MaxDataSize}
ListChunk == Chunk("LIST", 3, 3, 0, 0, 0, 0)
ChunkLists ==
    {<<fmt, data>> : fmt \in FmtChunks, data \in WholeDataChunks \cup CutDataChunks}
    \cup {<<data, fmt>> : data \in WholeDataChunks,
                          fmt \in {Chunk("fmt ", FmtChunkSize, FmtChunkSize, 3, 1, 8000, 32),
                                   Chunk("fmt ", FmtChunkSize, FmtChunkSize, 1, 2, 8000, 16),
                                   Chunk("fmt ", FmtChunkSize, FmtChunkSize, 1, 3, 8000, 16)}}
    \cup {<<ListChunk, fmt, data>> :
              fmt \in {Chunk("fmt ", FmtChunkSize, FmtChunkSize, 1, 2, 8000, 24)},
              data \in WholeDataChunks}
    \cup {<<>>, <<ListChunk>>, <<CutFmtChunk>>,
          <<Chunk("fmt ", FmtChunkSize, FmtChunkSize, 1, 1, 8000, 16)>>,
          <<Chunk("data", 4, 4, 0, 0, 0, 0)>>,
          <<Chunk("data", 4, 4, 0, 0, 0, 0), CutFmtChunk>>}
Files ==
    {WavFile(TRUE, "RIFF", "WAVE", chunks) : chunks \in ChunkLists}
    \cup {WavFile(FALSE, "RIFF", "WAVE", <<>>), WavFile(TRUE, "NOT ", "A WA", <<>>),
          WavFile(TRUE, "RIFF", "AVI ", <<>>), WavFile(TRUE, "", "", <<>>)}

(***************************************************************************)
(* FrequencyResampler.  Frequencies are whole Hz.  A float that need not   *)
(* be whole (t, a bin index, frac, an output value) is a fraction          *)
(* <<numerator, denominator>> with a positive denominator, and <<0, 0>>    *)
(* is NaN, the value of 0.0f / 0.0f; every comparison with NaN is false.   *)
(***************************************************************************)
NaN == <<0, 0>>
IsNaN(x) == x[2] = 0
Whole(n) == <<n, 1>>
Same(x, y) == ~IsNaN(x) /\ ~IsNaN(y) /\ x[1] * y[2] = y[1] * x[2]
Less(x, y) == ~IsNaN(x) /\ ~IsNaN(y) /\ x[1] * y[2] < y[1] * x[2]
\* std::min(a, b) is (b < a) ? b : a and std::max(a, b) is (a < b) ? b : a
StdMin(a, b) == IF Less(b, a) THEN b ELSE a
StdMax(a, b) == IF Less(a, b) THEN b ELSE a
\* static_cast<size_t> of a fraction that is not negative
Truncate(x) == x[1] \div x[2]

FrequencyScales == {"Linear", "Mel", "ERB", "Logarithmic", "Octave"}

\* The scale laws are log(1 + f / shift) for Mel (shift 700) and ERB (shift
\* 1 / 0.00437, kept as 229), and log(f) for Logarithmic and Octave
ScaleShift(scale) ==
    CASE scale = "Mel" -> 700
      [] scale = "ERB" -> 229
      [] OTHER -> 0

RECURSIVE Power(_, _)
Power(x, n) == IF n = 0 THEN 1 ELSE x * Power(x, n - 1)

\* inverse(min_transformed + t * (max_transformed - min_transformed)) for
\* t = k / n on a logarithmic law: the point between lo and hi that divides
\* their ratio as t, to the whole Hz below
Between(lo, hi, k, n) ==
    LET a == IF lo < hi THEN lo ELSE hi
        b == IF lo < hi THEN hi ELSE lo
        target == Power(lo, n - k) * Power(hi, k)
    IN  CHOOSE r \in a..b : Power(r, n) <= target /\ (r = b \/ target < Power(r + 1, n))

\* freq_hz of pixel i in computeMapping; std::max(freq, 1e-20f) of the log
\* laws is the whole Hz 0
FreqHz(scale, min, max, output_height, i) ==
    IF output_height = 1 THEN NaN
    ELSE IF scale = "Linear"
    THEN <<min * (output_height - 1) + i * (max - min), output_height - 1>>
    ELSE LET shift == ScaleShift(scale)
             floor(f) == IF f + shift < 0 THEN 0 ELSE f + shift
         IN  Whole(Between(floor(min), floor(max), i, output_height - 1) - shift)

\* freq_mapping_[i] as computeMapping stores it
BinIndex(scale, min, max, rate, size, output_height, i) ==
    LET freq_hz == FreqHz(scale, min, max, output_height, i)
    IN  IF IsNaN(freq_hz) THEN NaN ELSE <<freq_hz[1] * size, freq_hz[2] * rate>>

\* computeMapping(): freq_mapping_ for the members given
ComputeMapping(scale, min, max, rate, size, output_height) ==
    [i \in 0..(output_height - 1) |->
        BinIndex(scale, min, max, rate, size, output_height, i)]

ResamplerObject(scale, min, max, rate, size, output_height, mapping) ==
    [scale_ |-> scale, min_freq_ |-> min, max_freq_ |-> max, sample_rate_ |-> rate,
     fft_size_ |-> size, output_height_ |-> output_height, freq_mapping_ |-> mapping]

\* computeMapping() on an object
Remapped(object) ==
    [object EXCEPT !.freq_mapping_ =
        ComputeMapping(object.scale_, object.min_freq_, object.max_freq_,
                       object.sample_rate_, object.fft_size_, object.output_height_)]

\* validate() on an object returns
Validated(object) ==
    ResamplerValid(object.min_freq_, object.max_freq_, object.sample_rate_,
                   object.fft_size_, object.output_height_)

ResamplerOp(kind, threw, before, input, pixels, reads, fracs) ==
    [kind |-> kind, threw |-> threw, before |-> before, input |-> input,
     output |-> pixels, reads |-> reads, fracs |-> fracs]

SetterOp(kind, threw) == ResamplerOp(kind, threw, resampler, <<>>, <<>>, <<>>, <<>>)

\* FrequencyResampler(scale, min_freq, max_freq, sample_rate, fft_size,
\* output_height) that did not throw
ResamplerNew(scale, min, max, rate, size, output_height) ==
    /\ ResamplerValid(min, max, rate, size, output_height)
    /\ resampler = Remapped(ResamplerObject(scale, min, max, rate, size, output_height,
                                            <<>>))
    /\ resampler_op = ResamplerOp("new", FALSE, resampler, <<>>, <<>>, <<>>, <<>>)

\* setScale(scale)
SetScale(scale) ==
    /\ resampler' = IF scale # resampler.scale_
                    THEN Remapped([resampler EXCEPT !.scale_ = scale])
                    ELSE resampler
    /\ resampler_op' = SetterOp("setScale", FALSE)
    /\ UNCHANGED outsideResampler

\* setFrequencyRange(min_freq, max_freq): the members are assigned, then
\* validate() throws or computeMapping() runs
SetResamplerRange(min, max) ==
    LET assigned == [resampler EXCEPT !.min_freq_ = min, !.max_freq_ = max]
    IN  /\ resampler' = IF Validated(assigned) THEN Remapped(assigned) ELSE assigned
        /\ resampler_op' = SetterOp("setFrequencyRange", ~Validated(assigned))
        /\ UNCHANGED outsideResampler

\* setOutputHeight(height)
SetOutputHeight(height) ==
    /\ resampler' = IF height = 0 \/ height = resampler.output_height_ THEN resampler
                    ELSE Remapped([resampler EXCEPT !.output_height_ = height])
    /\ resampler_op' = SetterOp("setOutputHeight", height = 0)
    /\ UNCHANGED outsideResampler

\* The steps of resample() for one pixel
NumBins(size) == size \div 2 + 1
Clamped(bin_idx, num_bins) == StdMax(Whole(0), StdMin(bin_idx, Whole(num_bins - 1)))
Bin0(bin_idx) == Truncate(bin_idx)
Bin1(bin0, num_bins) == Min(bin0 + 1, num_bins - 1)
FracOfIndex(bin_idx, bin0) == bin_idx
Frac(bin_idx, bin0) == <<bin_idx[1] - bin0 * bin_idx[2], bin_idx[2]>>
\* input[bin0] * (1.0f - frac) + input[bin1] * frac
Interpolate(value0, value1, frac) ==
    <<value0 * (frac[2] - frac[1]) + value1 * frac[1], frac[2]>>

\* resample(input, output): output, the bins read and frac of every pixel
Resample(input) ==
    LET num_bins == NumBins(resampler.fft_size_)
        bin_idx(i) == Clamped(resampler.freq_mapping_[i], num_bins)
        bin0(i) == Bin0(bin_idx(i))
        bin1(i) == Bin1(bin0(i), num_bins)
        frac(i) == Frac(bin_idx(i), bin0(i))
        pixels == 0..(resampler.output_height_ - 1)
    IN  /\ DOMAIN input = 0..(num_bins - 1)
        /\ resampler_op' =
               ResamplerOp("resample", FALSE, resampler, input,
                           [i \in pixels |-> Interpolate(input[bin0(i)], input[bin1(i)],
                                                         frac(i))],
                           [i \in pixels |-> <<bin0(i), bin1(i)>>],
                           [i \in pixels |-> frac(i)])
        /\ UNCHANGED <<resampler, outsideResampler>>

\* The configurations, setter arguments and spectra the resampler is given
ResamplerRates == {16}
ResamplerSizes == {4, 8}
OutputHeights == {1, 2, 3}
RangeArgs == {<<0, 8>>, <<2, 8>>, <<1, 4>>, <<4, 2>>, <<2, 16>>, <<3, 7>>}
Spectra(num_bins) ==
    {[b \in 0..(num_bins - 1) |-> -60], [b \in 0..(num_bins - 1) |-> 7],
     [b \in 0..(num_bins - 1) |-> 10 * b], [b \in 0..(num_bins - 1) |-> (b % 2) * (0 - 20)]}

(***************************************************************************)
(* FritureApp's audio on its way through the ring: generateSineWave,       *)
(* generateChirp and loadAudioFromFile write it at the ring's cursor, and  *)
(* processAudioFrame reads each frame at the playback position.  The ring  *)
(* holds RingSeconds seconds of audio; it is followed element by element   *)
(* at a sample rate of PlaybackRate samples per second.  What the frame    *)
(* goes through afterwards (FFT, resampler, canvas) is followed in SpecApp.*)
(***************************************************************************)
RingSeconds == 60
PlaybackRate == 1
\* Seconds of audio generated or loaded: shorter and longer than the ring
AudioSeconds == {40, 70, 100}
AudioKinds == {"generateSineWave", "generateChirp", "loadAudioFromFile"}

PlaybackNew ==
    /\ audio_base = 0
    /\ audios_stored = 0

\* The last lines of generateSineWave, generateChirp and loadAudioFromFile:
\* write the samples to the ring, set the total and rewind the position
StoreAudio(kind, num_samples) ==
    /\ audios_stored < MaxAudios
    /\ WriteCall(num_samples)
    /\ total_audio_samples_' = num_samples
    /\ current_audio_position_' = 0
    /\ audio_base' = total_written
    /\ audios_stored' = audios_stored + 1
    /\ UNCHANGED <<run_state, app_pc, running_, paused_, show_help_, window_width_,
                   window_height_, frame_count_, fft_processor_, freq_resampler_,
                   fft_input_, fft_output_, quit_seen, events_handled, last_event>>
    /\ UNCHANGED <<concVars, canvasVars, settingsVars, audioVars, loaderVars,
                   resamplerVars>>

\* processAudioFrame() when run() calls it: the read of the frame and the
\* advance of the position
ReadFrame ==
    /\ current_audio_position_ < total_audio_samples_
    /\ current_audio_position_ + fft_size <= total_audio_samples_
    /\ ReadCall("read", current_audio_position_, fft_size)
    /\ current_audio_position_' = current_audio_position_ + SamplesPerColumn(fft_size)
    /\ UNCHANGED <<audio_base, audios_stored>>
    /\ UNCHANGED <<run_state, app_pc, running_, paused_, show_help_, window_width_,
                   window_height_, total_audio_samples_, frame_count_, fft_processor_,
                   freq_resampler_, fft_input_, fft_output_, quit_seen, events_handled, last_event>>
    /\ UNCHANGED <<concVars, canvasVars, settingsVars, audioVars, loaderVars,
                   resamplerVars>>

(***************************************************************************)
(* The specifications.                                                     *)
(***************************************************************************)
CallerInit ==
    /\ total_written = 0
    /\ output = <<>>
    /\ last_op = OpRecord("new", 0, 0, 0, FALSE)
    /\ fault = FALSE
    /\ stray = FALSE

ConcInit ==
    /\ wpc = "idle"
    /\ w_pos = 0
    /\ w_count = 0
    /\ w_k = 0
    /\ w_steps = 0
    /\ published = NewBuffer(capacity_)
    /\ rpc = [r \in Readers |-> "idle"]
    /\ r_p = [r \in Readers |-> 0]
    /\ r_n = [r \in Readers |-> 0]
    /\ r_start = [r \in Readers |-> 0]
    /\ r_k = [r \in Readers |-> 0]
    /\ r_out = [r \in Readers |-> <<>>]
    /\ r_expect = [r \in Readers |-> <<>>]
    /\ r_raced = [r \in Readers |-> FALSE]
    /\ r_steps = [r \in Readers |-> 0]

\* RingBuffer(capacity)
RingNew(capacity) ==
    /\ capacity_ = capacity
    /\ buffer_ = NewBuffer(capacity)
    /\ write_pos_ = 0

InitRing ==
    /\ \E capacity \in 1..MaxCapacity : RingNew(capacity)
    /\ CallerInit /\ ConcInit /\ CanvasNew(1, 1) /\ SettingsNew /\ AppNew(1, 1)
    /\ AudioNew(1, 1)
    /\ LoaderNew
    /\ ResamplerNew("Linear", 2, 8, 16, 4, 1)
    /\ PlaybackNew

NextRing ==
    \/ \E count \in 0..MaxCount : Write(count)
    \/ \E offset \in 0..MaxOffset, count \in 0..MaxCount : Read(offset, count)
    \/ \E n \in 0..MaxCount : ReadLatest(n)

SpecRing == InitRing /\ [][NextRing]_vars

InitConc ==
    /\ \E capacity \in ConcCapacities : RingNew(capacity)
    /\ CallerInit /\ ConcInit /\ CanvasNew(1, 1) /\ SettingsNew /\ AppNew(1, 1)
    /\ AudioNew(1, 1)
    /\ LoaderNew
    /\ ResamplerNew("Linear", 2, 8, 16, 4, 1)
    /\ PlaybackNew

NextConc ==
    \/ \E count \in 0..capacity_ : WBegin(count)
    \/ WCopy
    \/ WStore
    \/ \E r \in Readers, n \in 0..capacity_ : RBegin(r, n)
    \/ \E r \in Readers : RCopy(r)

SpecConc == InitConc /\ [][NextConc]_vars

InitCanvas ==
    /\ \E width \in 1..MaxWidth, height \in 1..MaxHeight : CanvasNew(width, height)
    /\ RingNew(1) /\ CallerInit /\ ConcInit /\ SettingsNew /\ AppNew(1, 1)
    /\ AudioNew(1, 1)
    /\ LoaderNew
    /\ ResamplerNew("Linear", 2, 8, 16, 4, 1)
    /\ PlaybackNew

NextCanvas ==
    \/ \E column_height \in 1..MaxHeight : AddColumn(column_height)
    \/ Clear
    \/ \E new_width \in 0..MaxWidth, new_height \in 0..MaxHeight :
           Resize(new_width, new_height)
    \/ RenderFrame
    \/ \E opens \in BOOLEAN : SaveToBMP(opens)

SpecCanvas == InitCanvas /\ [][NextCanvas]_vars

InitSettings ==
    /\ SettingsNew
    /\ RingNew(1) /\ CallerInit /\ ConcInit /\ CanvasNew(1, 1) /\ AppNew(1, 1)
    /\ AudioNew(1, 1)
    /\ LoaderNew
    /\ ResamplerNew("Linear", 2, 8, 16, 4, 1)
    /\ PlaybackNew

NextSettings ==
    \/ \E size \in FFTSizeArgs : SetFFTSize(size)
    \/ \E min \in MinFreqArgs, max \in MaxFreqArgs : SetFrequencyRange(min, max)
    \/ \E min \in MinDbArgs, max \in MaxDbArgs : SetAmplitudeRange(min, max)
    \/ \E range \in TimeRangeArgs : SetTimeRange(range)
    \/ \E rate \in SampleRateArgs : SetSampleRate(rate)

SpecSettings == InitSettings /\ [][NextSettings]_vars

InitApp ==
    /\ \E size \in WindowSizes :
           /\ AppNew(size[1], size[2])
           /\ CanvasNew(size[1], SpectrogramHeight(size[2]))
    /\ SettingsNew
    /\ RingNew(1) /\ CallerInit /\ ConcInit /\ AudioNew(1, 1)
    /\ LoaderNew
    /\ ResamplerNew("Linear", 2, 8, 16, 4, 1)
    /\ PlaybackNew

NextApp ==
    \/ GenerateChirp(ChirpDuration)
    \/ \E loaded \in BOOLEAN, file_sample_rate \in FileRates,
          num_samples \in FileSamples :
           LoadAudioFromFile(loaded, file_sample_rate, num_samples)
    \/ RunBegin
    \/ \E event \in Events : HandleEvent(event)
    \/ EventsDone
    \/ \E due \in BOOLEAN : ProcessAudio(due)
    \/ RenderAndLoop

SpecApp == InitApp /\ [][NextApp]_vars

InitAudio ==
    /\ \E engine_rate \in 1..MaxCapacity, buffer_size \in 1..2,
          ring_buffer_seconds \in {1} :
           /\ AudioNew(engine_rate, buffer_size)
           /\ RingNew(engine_rate * ring_buffer_seconds)
    /\ CallerInit /\ ConcInit /\ CanvasNew(1, 1) /\ SettingsNew /\ AppNew(1, 1)
    /\ LoaderNew
    /\ ResamplerNew("Linear", 2, 8, 16, 4, 1)
    /\ PlaybackNew

NextAudio ==
    \/ \E device_id \in DOMAIN DeviceInputs : SetInputDevice(device_id)
    \/ \E opens \in BOOLEAN, starts \in BOOLEAN : Start(opens, starts)
    \/ Stop
    \/ \E frame_count \in 0..buffer_size_, has_input \in BOOLEAN :
           AudioCallback(frame_count, has_input)

SpecAudio == InitAudio /\ [][NextAudio]_vars

InitLoader ==
    /\ LoaderNew
    /\ RingNew(1) /\ CallerInit /\ ConcInit /\ CanvasNew(1, 1) /\ SettingsNew
    /\ AppNew(1, 1) /\ AudioNew(1, 1)
    /\ ResamplerNew("Linear", 2, 8, 16, 4, 1)
    /\ PlaybackNew

NextLoader == \E file \in Files : Load(file)

SpecLoader == InitLoader /\ [][NextLoader]_vars

InitResampler ==
    /\ \E scale \in FrequencyScales, range \in RangeArgs, rate \in ResamplerRates,
          size \in ResamplerSizes, output_height \in OutputHeights :
           ResamplerNew(scale, range[1], range[2], rate, size, output_height)
    /\ RingNew(1) /\ CallerInit /\ ConcInit /\ CanvasNew(1, 1) /\ SettingsNew
    /\ AppNew(1, 1) /\ AudioNew(1, 1) /\ LoaderNew
    /\ PlaybackNew

NextResampler ==
    \/ \E scale \in FrequencyScales : SetScale(scale)
    \/ \E range \in RangeArgs : SetResamplerRange(range[1], range[2])
    \/ \E height \in OutputHeights \cup {0} : SetOutputHeight(height)
    \/ \E input \in Spectra(NumBins(resampler.fft_size_)) : Resample(input)

SpecResampler == InitResampler /\ [][NextResampler]_vars

\* The application after '-' has brought fft_size down to MinFFTSize
InitPlayback ==
    /\ fft_size = MinFFTSize
    /\ freq_scale = "Mel"
    /\ min_freq = DefaultMinFreq
    /\ max_freq = DefaultMaxFreq
    /\ spec_min_db = DefaultSpecMinDb
    /\ spec_max_db = DefaultSpecMaxDb
    /\ time_range = DefaultTimeRange
    /\ sample_rate = PlaybackRate
    /\ settings_op = SettingsOp("new", TRUE)
    /\ RingNew(PlaybackRate * RingSeconds)
    /\ PlaybackNew
    /\ CallerInit /\ ConcInit /\ CanvasNew(1, 1) /\ AppNew(1, 1) /\ AudioNew(1, 1)
    /\ LoaderNew
    /\ ResamplerNew("Linear", 2, 8, 16, 4, 1)

NextPlayback ==
    \/ \E kind \in AudioKinds, duration \in AudioSeconds :
           StoreAudio(kind, duration * sample_rate)
    \/ ReadFrame

SpecPlayback == InitPlayback /\ [][NextPlayback]_vars

Spec == SpecCanvas

(***************************************************************************)
(* Properties of the ring used by one thread (SpecRing).                   *)
(***************************************************************************)
\* The samples a completed write() was given, by element k = 0, 1, ...
WrittenSample(k) == total_written - last_op.count + k + 1

\* C1: after at least n samples have been written (n <= capacity),
\* read(getWritePosition() - n, out, n) yields the last n samples written, in
\* order, for every capacity and also when getWritePosition() < n.  Stated
\* for the histories in which every call so far stayed inside the storage.
C1_ReadLatestYieldsLastN ==
    (/\ last_op.kind = "latest"
     /\ ~stray
     /\ last_op.count <= capacity_
     /\ last_op.count <= total_written)
    => output = [k \in 1..last_op.count |-> total_written - last_op.count + k]

C7_WriteStaysInStorage ==
    last_op.kind = "write"
    => /\ ~last_op.oob
       /\ ~fault
       /\ \A k \in (last_op.count - Min(last_op.count, capacity_))..(last_op.count - 1) :
              buffer_[(last_op.pos + k) % capacity_] = WrittenSample(k)

\* C8: for every offset and count (also count > capacity) read(offset, out,
\* count) sets out[k] = storage[(offset + k) mod capacity], loads nothing
\* outside the storage, and leaves the cursor and the storage unchanged.
C8_ReadCopiesModCapacity ==
    [][last_op'.kind = "read"
       => /\ ~last_op'.oob
          /\ ~fault'
          /\ output' = [k \in 1..last_op'.count |->
                 buffer_[(last_op'.offset + k - 1) % capacity_]]
          /\ write_pos_' = write_pos_
          /\ buffer_' = buffer_]_vars

\* C9: after writes totalling T samples into a ring of capacity C,
\* getWritePosition() = T mod C, which is in [0, C).
C9_CursorIsTotalModCapacity ==
    /\ GetWritePosition = total_written % capacity_
    /\ GetWritePosition \in 0..(capacity_ - 1)

\* C9 witness: the writes have gone round the storage more than twice, the
\* last one longer than the capacity.
C9_WitnessWrapped ==
    /\ last_op.kind = "write" /\ ~fault
    /\ last_op.count > capacity_
    /\ total_written > 2 * capacity_
    /\ write_pos_ # 0

(***************************************************************************)
(* Properties of the ring shared by threads (SpecConc).                    *)
(***************************************************************************)
\* C2: a reader that obtains p = getWritePosition() and reads n <= capacity
\* samples ending at p returns no element the writer was overwriting during
\* the read, and returns exactly the samples that were the latest when p was
\* published.
C2_ReadersConsumePublished ==
    \A r \in Readers :
        rpc[r] = "done" => (~r_raced[r] /\ r_out[r] = r_expect[r])

\* C10: wait-freedom.  A thread inside a call can always take its next step,
\* whatever the other threads are doing, and a call of count elements takes
\* at most count + 2 steps of its own; the writer can start a write and a
\* reader a read at any time.
C10_WaitFree ==
    /\ wpc = "copy" => (ENABLED WriterStep /\ w_steps <= w_count + 1)
    /\ (wpc = "idle" /\ total_written < MaxConcTotal)
          => (ENABLED WBegin(1) /\ w_steps <= w_count + 2)
    /\ \A r \in Readers :
          /\ rpc[r] = "copy" => (ENABLED ReaderStep(r) /\ r_steps[r] <= r_n[r])
          /\ rpc[r] # "copy" => (ENABLED RBegin(r, capacity_) /\ r_steps[r] <= r_n[r] + 1)

\* C10 witness: the writer and both readers are inside a call at once, and a
\* reader is about to load an element the writer's call stores to.
C10_WitnessAllBusy ==
    /\ wpc = "copy"
    /\ \A r \in Readers : rpc[r] = "copy"
    /\ \E r \in Readers :
          ElementIndex(r_start[r], ReadFirstChunk(r_start[r], r_n[r], capacity_), r_k[r])
              \in WriterTouched

(***************************************************************************)
(* Properties of the canvas and the renderer (SpecCanvas).                 *)
(***************************************************************************)
\* The column slot shown at display position x
VisibleSlot(x) == (read_offset_ + x) % (2 * width_)

\* C3: after n > width addColumn calls since the last reset, slot
\* (read_offset + x) mod (2 * width) holds the (n - width + x + 1)-th column
\* added, for every x in [0, width).
C3_VisibleWindowIsLatest ==
    columns_written_ > width_
    => /\ Len(added) = columns_written_
       /\ \A x \in 0..(width_ - 1), y \in 0..(height_ - 1) :
              pixels_[VisibleSlot(x) * height_ + y]
                  = added[columns_written_ - width_ + x + 1][y]

\* C3 witness: more than 2 * width columns were added to a canvas at least
\* two columns wide, so the window has wrapped.
C3_WitnessWrapped ==
    /\ width_ >= 2
    /\ columns_written_ > 2 * width_
    /\ canvas_op = CanvasOp("addColumn", FALSE)

\* C4: once more than width columns were added since the last reset,
\* read_offset = (write_offset + width) mod (2 * width).
C4_ReadOffsetTrailsWrite ==
    columns_written_ > width_
    => read_offset_ = (write_offset_ + width_) % (2 * width_)

\* C4 witness: the write offset has wrapped into the first half, and the
\* read offset is in the second half.
C4_WitnessReadInSecondHalf ==
    /\ columns_written_ > width_
    /\ write_offset_ < width_
    /\ read_offset_ >= width_
    /\ width_ >= 2

\* C5: a rendered frame shows, at column x, the canvas slot
\* (read_offset + x) mod (2 * width).
C5_RendererDrawsVisibleWindow ==
    canvas_op.kind = "render"
    => \A x \in 0..(width_ - 1), y \in 0..(height_ - 1) :
           texture[y * width_ + x] = pixels_[VisibleSlot(x) * height_ + y]

(***************************************************************************)
(* The canvas's offsets, rejected calls, resets and the BMP writer         *)
(* (SpecCanvas).                                                           *)
(***************************************************************************)
\* C11: for every width w, read_offset stays 0 through the first w addColumn
\* calls after construction, clear() or resize(), and call w + 1 is the first
\* to change it, to 1.
C11_ReadOffsetFirstMoves ==
    /\ columns_written_ <= width_ => read_offset_ = 0
    /\ columns_written_ = width_ + 1 => read_offset_ = 1

C11_WitnessFirstMove ==
    /\ canvas_op = CanvasOp("addColumn", FALSE)
    /\ width_ = 1
    /\ columns_written_ = width_ + 1

\* C12: after n successful addColumn calls since the last reset write_offset
\* is n mod 2*width; it always lies in [0, 2*width), so the column copy it
\* designates lies inside the 2*width*height store; after exactly 2*width
\* calls write_offset is 0 again and read_offset is width.
C12_WriteOffsetCountsModDouble ==
    /\ write_offset_ = columns_written_ % (2 * width_)
    /\ write_offset_ \in 0..(2 * width_ - 1)
    /\ DOMAIN pixels_ = 0..(2 * width_ * height_ - 1)
    /\ \A y \in 0..(height_ - 1) :
           DestOffset(write_offset_, height_) + y \in DOMAIN pixels_
    /\ columns_written_ = 2 * width_ => (write_offset_ = 0 /\ read_offset_ = width_)

C12_WitnessFullCycle ==
    /\ canvas_op = CanvasOp("addColumn", FALSE)
    /\ width_ > 1
    /\ columns_written_ = 2 * width_

\* C13 as claimed: in every reachable state getReadOffset() and
\* getWriteOffset() return a column index in [0, width).
C13_AccessorsBelowWidth ==
    /\ read_offset_ \in 0..(width_ - 1)
    /\ write_offset_ \in 0..(width_ - 1)

\* C14: an addColumn whose column_height differs from height, and a resize
\* with a zero width or height, throw and leave the pixel store, the
\* dimensions, write_offset, read_offset and columns_written as they were.
C14_RejectedCallsChangeNothing ==
    [][canvas_op'.threw =>
           UNCHANGED <<pixels_, width_, height_, write_offset_, read_offset_,
                       columns_written_>>]_vars

C14_WitnessRejected ==
    /\ canvas_op.threw
    /\ canvas_op.kind \in {"addColumn", "resize"}
    /\ columns_written_ > width_

\* The members a canvas just constructed with the given dimensions has
FreshCanvas(width, height) ==
    /\ width_ = width
    /\ height_ = height
    /\ pixels_ = NewPixels(width, height)
    /\ write_offset_ = 0
    /\ read_offset_ = 0
    /\ columns_written_ = 0

\* C15: clear(), at whatever point it is called, leaves the canvas as a
\* freshly constructed one of the same dimensions: every pixel zero, both
\* offsets 0 and columns_written 0.
C15_ClearGivesFreshCanvas ==
    canvas_op.kind = "clear" => FreshCanvas(width_, height_)

C15_WitnessClearedAfterWrap ==
    /\ canvas_op.kind = "clear"
    /\ prior_written > 2 * width_

\* C16: after resize(w', h') with both positive the canvas has dimensions
\* (w', h'), a store of exactly 2*w'*h' zero pixels, both offsets 0 and
\* columns_written 0, whatever it held before: the members of a fresh
\* canvas of the new dimensions.
C16_ResizeGivesFreshCanvas ==
    canvas_op = CanvasOp("resize", FALSE) =>
        /\ FreshCanvas(call_args[1], call_args[2])
        /\ Cardinality(DOMAIN pixels_) = 2 * call_args[1] * call_args[2]

C16_WitnessResizedAfterUse ==
    /\ canvas_op = CanvasOp("resize", FALSE)
    /\ prior_written > 1
    /\ width_ < MaxWidth

\* C17: a successful addColumn changes only the height pixels of the column
\* slot write_offset designated before the call (they become the column
\* given); every other pixel and the dimensions stay as they were.
C17_AddColumnTouchesOneSlot ==
    [][canvas_op' = CanvasOp("addColumn", FALSE) =>
           /\ UNCHANGED <<width_, height_>>
           /\ DOMAIN pixels_' = DOMAIN pixels_
           /\ \A i \in DOMAIN pixels_ :
                  IF i \div height_ = write_offset_
                  THEN pixels_'[i] =
                           ColumnData(columns_written_ + 1, height_)[i % height_]
                  ELSE pixels_'[i] = pixels_[i]]_vars

C17_WitnessOverwroteOldColumn ==
    /\ canvas_op = CanvasOp("addColumn", FALSE)
    /\ width_ # height_
    /\ columns_written_ > 2 * width_

\* C18: saveToBMP() does not change the canvas, and the file it writes holds
\* the visible window: height rows of width pixels, bottom row (height - 1)
\* first, the x-th pixel of a row taken from slot (read_offset + x) mod
\* 2*width.
C18_BmpIsVisibleWindow ==
    [][canvas_op'.kind = "saveToBMP" =>
           /\ UNCHANGED <<pixels_, width_, height_, write_offset_, read_offset_,
                          columns_written_>>
           /\ bmp'.ok =>
                  /\ bmp'.width = width_
                  /\ bmp'.height = height_
                  /\ Len(bmp'.rows) = height_
                  /\ \A r \in 1..height_ :
                         /\ Len(bmp'.rows[r]) = width_
                         /\ \A x \in 0..(width_ - 1) :
                                bmp'.rows[r][x + 1] =
                                    pixels_[VisibleSlot(x) * height_ + (height_ - r)]]_vars

C18_WitnessSavedScrolled ==
    /\ canvas_op.kind = "saveToBMP"
    /\ bmp.ok
    /\ height_ > 1
    /\ read_offset_ > 0

(***************************************************************************)
(* The settings (SpecSettings).                                            *)
(***************************************************************************)
\* C19 as claimed: starting from the default settings, after any sequence
\* of setter calls, accepted or rejected, isValid() is true; in particular
\* min_freq < max_freq <= sample_rate / 2 after every accepted setSampleRate.
C19_SettingsStayValid ==
    /\ IsValid
    /\ settings_op = SettingsOp("setSampleRate", TRUE) =>
           (min_freq < max_freq /\ max_freq <= Nyquist(sample_rate))

(***************************************************************************)
(* The application's main loop (SpecApp).                                  *)
(***************************************************************************)
\* C20 as claimed: run() ends only after a quit event (SDL_QUIT, Q or ESC)
\* was processed; no other key or event makes run() return or throw.
C20_RunEndsOnlyOnQuit ==
    /\ run_state # "threw"
    /\ run_state = "returned" => quit_seen

(***************************************************************************)
(* The audio engine (SpecAudio).                                           *)
(***************************************************************************)
\* C21 as claimed: isRunning() is true exactly when the stream is capturing,
\* in every reachable state, also after the callback returned non-zero.
C21_RunningFlagIsStreamState ==
    is_running_ <=> stream = "running"

\* C22: start() on a running engine returns true and opens nothing; stop()
\* on a stopped engine changes nothing; the engine never asks RtAudio for a
\* second stream (whenever it is not running no stream is open, so every
\* openStream finds the RtAudio object without a stream); a start() that
\* fails leaves the engine not running with no stream open.
C22_StartStopIdempotent ==
    [][/\ ~is_running_' => stream' = "closed"
       /\ audio_op' = AudioOp("start", FALSE) => (~is_running_' /\ stream' = "closed")
       /\ (audio_op'.kind = "start" /\ is_running_) =>
              /\ audio_op'.result = TRUE
              /\ UNCHANGED <<is_running_, stream, streams_opened>>
       /\ (audio_op'.kind = "stop" /\ ~is_running_) =>
              UNCHANGED <<is_running_, stream, streams_opened, current_device_id_,
                          device_set_, error_message_, ringVars>>]_vars

C22_WitnessFailedStart ==
    /\ audio_op = AudioOp("start", FALSE)
    /\ error_message_ = "Failed to start stream"
    /\ streams_opened > 1

(***************************************************************************)
(* Properties of AudioFileLoader (SpecLoader).                             *)
(***************************************************************************)
\* C23: after every load() that returned, in any sequence of loads on one
\* loader, it returned false exactly when getError() is non-empty; when it
\* returned false the output vector is empty; when it returned true the
\* output vector holds one mono sample per frame, made of that frame's bytes.
C23_LoadResultMatchesError ==
    load_op.result \in {"true", "false"} =>
        /\ load_op.result = "false" <=> error_ # NoError
        /\ load_op.result = "false" => samples = <<>>
        /\ load_op.result = "true" =>
               /\ Len(samples) = load_op.data_size
                                     \div ((info_.bits_per_sample \div 8) * info_.channels)
               /\ Len(samples) = info_.num_samples

\* A failed load of a cut file after a successful load of a stereo file
C23_WitnessFailedAfterLoaded ==
    /\ load_op.result = "false"
    /\ error_ = "Failed to read complete audio data"
    /\ out_sample_rate = 44100
    /\ info_.channels = 2

\* C30: every load() writes at most total_samples = floor(data_size /
\* bytes_per_sample) floats into temp_samples and reads at most data_size
\* bytes of raw_data, and stereoToMono reads at most total_samples floats.
C30_LoadStaysInsideBuffers ==
    /\ load_op.temp_written <= FloatBytes * load_op.total_samples
    /\ load_op.raw_read <= load_op.data_size
    /\ load_op.stereo_read <= load_op.total_samples

C26_ThrowingSetterChangesNothing ==
    /\ resampler_op.threw => resampler = resampler_op.before
    /\ Validated(resampler)
    /\ resampler = Remapped(resampler)

(***************************************************************************)
(* Properties of the application's playback through the ring               *)
(* (SpecPlayback).                                                         *)
(***************************************************************************)
\* C25: every frame processAudioFrame has read consists of the samples
\* [pos, pos + fft_size) of the audio generated or loaded last, where pos is
\* the playback position the frame was read at.
C25_FrameIsLatestAudioAtPosition ==
    last_op.kind = "read" =>
        output = Data(audio_base + last_op.offset, fft_size)

(***************************************************************************)
(* Properties of the application's processing components and pause         *)
(* (SpecApp).                                                              *)
(***************************************************************************)
\* C27: whenever processAudioFrame processes a frame (the playback position
\* advances), the FFT processor and the frequency resampler were built from
\* the current settings: size, scale, frequency range and sample rate.
C27_FrameUsesCurrentSettings ==
    [][current_audio_position_' > current_audio_position_ =>
           /\ fft_processor_ = fft_size
           /\ freq_resampler_.scale = freq_scale
           /\ freq_resampler_.min_freq = min_freq
           /\ freq_resampler_.max_freq = max_freq
           /\ freq_resampler_.sample_rate = sample_rate
           /\ freq_resampler_.fft_size = fft_size]_vars

\* C28: in every state settings_.fft_size is a power of two in [32, 16384],
\* and the FFT processor's size, the length of fft_input_ and the length of
\* fft_output_ are fft_size, fft_size and fft_size / 2 + 1.
C28_BuffersMatchFFTSize ==
    /\ IsValidFFTSize(fft_size)
    /\ fft_processor_ = fft_size
    /\ fft_input_ = fft_size
    /\ fft_output_ = fft_size \div 2 + 1

\* C29: SPACE, and nothing else, toggles paused_.  A step taken while paused
\* adds no column and leaves the position alone, or rewinds it to 0 when the
\* step handles R.  While not paused the position changes only to 0 or by
\* the hop fft_size / 4, and an advance never takes it beyond
\* total_audio_samples_ - fft_size + hop.
C29_PauseHoldsPosition ==
    [][LET space == /\ events_handled' = events_handled + 1
                    /\ last_event'.type = "SDL_KEYDOWN"
                    /\ last_event'.sym = "SPACE"
           reset == /\ events_handled' = events_handled + 1
                    /\ last_event'.type = "SDL_KEYDOWN"
                    /\ last_event'.sym = "r"
           hop == fft_size \div 4
       IN  /\ space => paused_' = ~paused_
           /\ paused_' # paused_ => space
           /\ paused_ =>
                  /\ Len(added') <= Len(added)
                  /\ \/ current_audio_position_' = current_audio_position_
                     \/ reset /\ current_audio_position_' = 0
           /\ current_audio_position_' # current_audio_position_ =>
                  \/ current_audio_position_' = 0
                  \/ /\ ~paused_
                     /\ current_audio_position_' = current_audio_position_ + hop
                     /\ current_audio_position_' <= total_audio_samples_ - fft_size + hop
                     /\ Len(added') = Len(added) + 1]_vars

\* Paused after a frame was processed: the loop passed its audio step and
\* the position is where the frame left it
C29_WitnessPausedMidPlayback ==
    /\ run_state = "running"
    /\ paused_
    /\ app_pc = "render"
    /\ frame_count_ >= 1
    /\ current_audio_position_ > 0
    /\ added # <<>>

====
